---------------------------- MODULE Spec2Model ----------------------------
(***************************************************************************)
(* Model of the timetable generator: the TimetableGenerator class          *)
(* (src/lib/timetable-generator.ts: validateConfiguration and the greedy   *)
(* assignment engine) and the page controller that drives it and edits the *)
(* generated timetable interactively (src/unnamed/part_000).               *)
(*                                                                         *)
(* Conventions.  A time string "HH:MM" is the pair <<HH, MM>>; it is parsed *)
(* by timeToMinutes.  An absent optional value (JavaScript undefined) is   *)
(* Undefined.  A message string is a record whose tag is the text before   *)
(* the first colon.  IEEE rounding of the completion rate is not modelled: *)
(* the rate is the exact rational num/den.                                  *)
(***************************************************************************)
EXTENDS Integers, Sequences, FiniteSets, TLC

\* ------------------------------------------------------------------------
\* Bounds of the model
\* ------------------------------------------------------------------------
MaxSubjects == 2
MaxFrequency == 2
MaxSlots == 5
MaxRuns == 2
IdBlock == 50
MaxEdits == 1

\* ------------------------------------------------------------------------
\* Program constants
\* ------------------------------------------------------------------------
\* the weekly cap written as the literal 3 in validateConfiguration and
\* detectConflicts (CSP_CONSTRAINTS.MAX_TEACHER_SLOTS_PER_WEEK)
MAX_TEACHER_SLOTS_PER_WEEK == 3

\* the bounds SubjectForm checks (CSP_CONSTRAINTS)
MIN_SUBJECT_DURATION == 30
MAX_SUBJECT_DURATION == 120
MIN_FREQUENCY == 1
MAX_FREQUENCY == 5

Undefined == "undefined"

\* JavaScript truthiness of an optional string
Truthy(x) == x # Undefined /\ x # ""

\* s.trim() === '' on the strings of the model
BlankStrings == {"", " "}
IsBlank(s) == s \in BlankStrings

\* ------------------------------------------------------------------------
\* Input sets
\* ------------------------------------------------------------------------
\* teacher names; "" is a subject without a teacher.  Names matter only up to
\* equality, so the i-th subject draws from the first i names.
TeacherNames == <<"Ann", "Bob">>

SubjectIds == <<"s1", "s2", "s3">>
SubjectNames == <<"Math", "Physics", "Art">>

\* duration, room and preferred slots of a subject (an absent preferred-slot
\* list and an empty one are treated alike by getAvailableSlots: both <<>>)
SubjectProfiles ==
    { [duration |-> 50, room |-> Undefined, preferredTimeSlots |-> <<>>],
      [duration |-> 60, room |-> "R1",      preferredTimeSlots |-> <<"mon-1", "tue-2", "wed-2">>] }

\* TimeSlotForm.calculateDuration: end minus start, in minutes
timeToMinutes(time) == time[1] * 60 + time[2]

calculateDuration(start, end) == timeToMinutes(end) - timeToMinutes(start)

MkSlot(id, day, start, end) ==
    [id |-> id, day |-> day, startTime |-> start, endTime |-> end,
     duration |-> calculateDuration(start, end)]

\* The time slots a configuration is drawn from: two default periods on
\* Monday and Tuesday, and custom slots that overlap them or are longer.
SlotPool ==
    << MkSlot("mon-1", "Monday",    <<8, 30>>, <<9, 20>>),
       MkSlot("mon-2", "Monday",    <<9, 0>>,  <<10, 0>>),
       MkSlot("mon-3", "Monday",    <<9, 20>>, <<10, 10>>),
       MkSlot("tue-1", "Tuesday",   <<8, 30>>, <<9, 20>>),
       MkSlot("tue-2", "Tuesday",   <<9, 20>>, <<10, 20>>),
       MkSlot("wed-1", "Wednesday", <<8, 30>>, <<9, 20>>),
       MkSlot("wed-2", "Wednesday", <<9, 20>>, <<10, 20>>) >>

Min(a, b) == IF a < b THEN a ELSE b

SlotLists == { SubSeq(SlotPool, 1, n) : n \in 0 .. Min(MaxSlots, Len(SlotPool)) }

MkSubject(i, teacher, frequency, profile) ==
    [id |-> SubjectIds[i], name |-> SubjectNames[i],
     duration |-> profile.duration, frequency |-> frequency,
     teacher |-> teacher, room |-> profile.room,
     preferredTimeSlots |-> profile.preferredTimeSlots]

TeachersAt(i) == {""} \cup { TeacherNames[j] : j \in 1 .. Min(i, Len(TeacherNames)) }

SubjectsAt(i) ==
    { MkSubject(i, t, f, p) : t \in TeachersAt(i), f \in 1 .. MaxFrequency, p \in SubjectProfiles }

RECURSIVE SubjectListsOf(_)
SubjectListsOf(n) ==
    IF n = 0 THEN { <<>> }
    ELSE { Append(s, x) : s \in SubjectListsOf(n - 1), x \in SubjectsAt(n) }

SubjectLists == UNION { SubjectListsOf(n) : n \in 0 .. Min(MaxSubjects, Len(SubjectIds)) }

Configs == { [subjects |-> s, timeSlots |-> t] : s \in SubjectLists, t \in SlotLists }

\* ------------------------------------------------------------------------
\* Sequence helpers
\* ------------------------------------------------------------------------
RECURSIVE SumSeq(_)
SumSeq(s) == IF s = <<>> THEN 0 ELSE Head(s) + SumSeq(Tail(s))

Range(s) == { s[i] : i \in DOMAIN s }

\* the distinct elements of s in order of first appearance (keys of a Map,
\* Array.from(new Set(...)))
RECURSIVE Distinct(_)
Distinct(s) ==
    IF s = <<>> THEN <<>>
    ELSE LET front == Distinct(SubSeq(s, 1, Len(s) - 1))
             last  == s[Len(s)]
         IN IF last \in Range(front) THEN front ELSE Append(front, last)

MapSeq(s, F(_)) == [i \in DOMAIN s |-> F(s[i])]

\* ------------------------------------------------------------------------
\* validateConfiguration
\* ------------------------------------------------------------------------
Msg(tag, kind, who, n, m) == [tag |-> tag, kind |-> kind, who |-> who, n |-> n, m |-> m]

\* sum of subject.frequency over the subjects of a teacher
getTeacherTotalLoad(config, teacherName) ==
    SumSeq(MapSeq(SelectSeq(config.subjects, LAMBDA s : s.teacher = teacherName),
                  LAMBDA s : s.frequency))

\* keys of the teacherWorkloads Map: truthy teachers in insertion order
teacherWorkloadKeys(config) ==
    Distinct(MapSeq(SelectSeq(config.subjects, LAMBDA s : Truthy(s.teacher)),
                    LAMBDA s : s.teacher))

missingTeacherErrors(config) ==
    MapSeq(SelectSeq(config.subjects,
                     LAMBDA s : ~Truthy(s.teacher) \/ IsBlank(s.teacher)),
           LAMBDA s : Msg("CONFIGURATION_ERROR", "missing_teacher", s.name, 0, 0))

\* fault: a teacher one slot over the cap is not reported
workloadErrorsOffByOne(config) ==
    MapSeq(SelectSeq(teacherWorkloadKeys(config),
                     LAMBDA t : getTeacherTotalLoad(config, t) > MAX_TEACHER_SLOTS_PER_WEEK + 1),
           LAMBDA t : Msg("CONSTRAINT_VIOLATION", "teacher_over_cap", t,
                          getTeacherTotalLoad(config, t), MAX_TEACHER_SLOTS_PER_WEEK))

\* fault: a teacher exactly at the cap is reported as over it
workloadErrorsAtCap(config) ==
    MapSeq(SelectSeq(teacherWorkloadKeys(config),
                     LAMBDA t : getTeacherTotalLoad(config, t) >= MAX_TEACHER_SLOTS_PER_WEEK),
           LAMBDA t : Msg("CONSTRAINT_VIOLATION", "teacher_over_cap", t,
                          getTeacherTotalLoad(config, t), MAX_TEACHER_SLOTS_PER_WEEK))

workloadErrors(config) ==
    MapSeq(SelectSeq(teacherWorkloadKeys(config),
                     LAMBDA t : getTeacherTotalLoad(config, t) > MAX_TEACHER_SLOTS_PER_WEEK),
           LAMBDA t : Msg("CONSTRAINT_VIOLATION", "teacher_over_cap", t,
                          getTeacherTotalLoad(config, t), MAX_TEACHER_SLOTS_PER_WEEK))

capacityWarnings(config) ==
    MapSeq(SelectSeq(teacherWorkloadKeys(config),
                     LAMBDA t : getTeacherTotalLoad(config, t) = MAX_TEACHER_SLOTS_PER_WEEK),
           LAMBDA t : Msg("CAPACITY_WARNING", "teacher_at_cap", t,
                          MAX_TEACHER_SLOTS_PER_WEEK, MAX_TEACHER_SLOTS_PER_WEEK))

compatibleSlots(config, subject) ==
    SelectSeq(config.timeSlots, LAMBDA slot : slot.duration >= subject.duration)

durationErrors(config) ==
    MapSeq(SelectSeq(config.subjects,
                     LAMBDA s : Len(compatibleSlots(config, s)) = 0),
           LAMBDA s : Msg("DURATION_MISMATCH", "no_slot_long_enough", s.name, s.duration, 0))

daysAvailable(config, subject) ==
    Cardinality({ slot.day : slot \in Range(compatibleSlots(config, subject)) })

schedulingRiskWarnings(config) ==
    MapSeq(SelectSeq(config.subjects,
                     LAMBDA s : s.frequency > daysAvailable(config, s)),
           LAMBDA s : Msg("SCHEDULING_RISK", "more_slots_than_days", s.name,
                          s.frequency, daysAvailable(config, s)))

\* keys of the roomAssignments Map: truthy rooms in insertion order
roomKeys(config) ==
    Distinct(MapSeq(SelectSeq(config.subjects, LAMBDA s : Truthy(s.room)),
                    LAMBDA s : s.room))

roomTotalFrequency(config, room) ==
    SumSeq(MapSeq(SelectSeq(config.subjects, LAMBDA s : s.room = room),
                  LAMBDA s : s.frequency))

totalRoomSlots(config) ==
    Len(SelectSeq(config.timeSlots, LAMBDA slot : slot.day = "Monday"))
      * Cardinality({ slot.day : slot \in Range(config.timeSlots) })

roomRiskWarnings(config) ==
    MapSeq(SelectSeq(roomKeys(config),
                     LAMBDA r : /\ Len(SelectSeq(config.subjects, LAMBDA s : s.room = r)) > 1
                                /\ roomTotalFrequency(config, r) > totalRoomSlots(config)),
           LAMBDA r : Msg("ROOM_CONFLICT_RISK", "room_over_demand", r,
                          roomTotalFrequency(config, r), totalRoomSlots(config)))

\* fault: the no-time-slots error is pushed without returning
validateConfigurationNoReturn(config) ==
    IF Len(config.subjects) = 0
    THEN [isValid |-> FALSE,
          errors |-> << Msg("VALIDATION_ERROR", "no_subjects", "", 0, 0) >>,
          warnings |-> <<>>]
    ELSE LET errors == (IF Len(config.timeSlots) = 0
                        THEN << Msg("CONFIGURATION_ERROR", "no_time_slots", "", 0, 0) >>
                        ELSE <<>>)
                         \o missingTeacherErrors(config) \o workloadErrors(config)
                         \o durationErrors(config)
             warnings == capacityWarnings(config) \o schedulingRiskWarnings(config)
                           \o roomRiskWarnings(config)
         IN [isValid |-> Len(errors) = 0, errors |-> errors, warnings |-> warnings]

validateConfiguration(config) ==
    IF Len(config.subjects) = 0
    THEN [isValid |-> FALSE,
          errors |-> << Msg("VALIDATION_ERROR", "no_subjects", "", 0, 0) >>,
          warnings |-> <<>>]
    ELSE IF Len(config.timeSlots) = 0
    THEN [isValid |-> FALSE,
          errors |-> << Msg("CONFIGURATION_ERROR", "no_time_slots", "", 0, 0) >>,
          warnings |-> <<>>]
    ELSE LET errors == missingTeacherErrors(config) \o workloadErrors(config)
                         \o durationErrors(config)
             warnings == capacityWarnings(config) \o schedulingRiskWarnings(config)
                           \o roomRiskWarnings(config)
         IN [isValid |-> Len(errors) = 0, errors |-> errors, warnings |-> warnings]

\* ------------------------------------------------------------------------
\* The assignment engine (class TimetableGenerator)
\* ------------------------------------------------------------------------
\* fault: periods that only touch count as overlapping
timesOverlapTouching(start1, end1, start2, end2) ==
    /\ timeToMinutes(start1) <= timeToMinutes(end2)
    /\ timeToMinutes(start2) <= timeToMinutes(end1)

\* fault: two periods clash only if they start together
timesOverlapSameStart(start1, end1, start2, end2) ==
    timeToMinutes(start1) = timeToMinutes(start2)

timesOverlap(start1, end1, start2, end2) ==
    /\ timeToMinutes(start1) < timeToMinutes(end2)
    /\ timeToMinutes(start2) < timeToMinutes(end1)

\* days on which a teacher already has assignments, without duplicates
getTeacherAssignedDays(assignments, teacherName) ==
    Distinct(MapSeq(SelectSeq(assignments, LAMBDA a : a.teacherId = teacherName),
                    LAMBDA a : a.day))

getTeacherCurrentLoad(assignments, teacherName) ==
    Len(SelectSeq(assignments, LAMBDA a : a.teacherId = teacherName))

\* the variant that ignores the preferred-slot list
getAvailableSlotsAnySlot(config, assignments, subject) ==
    LET slots == SelectSeq(config.timeSlots, LAMBDA slot : slot.duration >= subject.duration)
        teacherAssignedDays == Range(getTeacherAssignedDays(assignments, subject.teacher))
        slotsOnNewDays == SelectSeq(slots, LAMBDA slot : slot.day \notin teacherAssignedDays)
        slotsOnExistingDays == SelectSeq(slots, LAMBDA slot : slot.day \in teacherAssignedDays)
    IN IF Truthy(subject.teacher)
       THEN slotsOnNewDays \o slotsOnExistingDays
       ELSE slots

\* the variant that keeps the candidates in configuration order
getAvailableSlotsConfigOrder(config, assignments, subject) ==
    LET preferred == IF Len(subject.preferredTimeSlots) > 0
                     THEN SelectSeq(config.timeSlots,
                                    LAMBDA slot : slot.id \in Range(subject.preferredTimeSlots))
                     ELSE config.timeSlots
    IN SelectSeq(preferred, LAMBDA slot : slot.duration >= subject.duration)

getAvailableSlots(config, assignments, subject) ==
    LET preferred == IF Len(subject.preferredTimeSlots) > 0
                     THEN SelectSeq(config.timeSlots,
                                    LAMBDA slot : slot.id \in Range(subject.preferredTimeSlots))
                     ELSE config.timeSlots
        slots == SelectSeq(preferred, LAMBDA slot : slot.duration >= subject.duration)
        teacherAssignedDays == Range(getTeacherAssignedDays(assignments, subject.teacher))
        slotsOnNewDays == SelectSeq(slots, LAMBDA slot : slot.day \notin teacherAssignedDays)
        slotsOnExistingDays == SelectSeq(slots, LAMBDA slot : slot.day \in teacherAssignedDays)
    IN IF Truthy(subject.teacher)
       THEN slotsOnNewDays \o slotsOnExistingDays
       ELSE slots

\* name of the subject an assignment refers to ('Unknown Subject' if none)
subjectNameOf(config, assignment) ==
    LET found == SelectSeq(config.subjects, LAMBDA s : s.id = assignment.subjectId)
    IN IF Len(found) > 0 /\ Truthy(found[1].name) THEN found[1].name ELSE "Unknown Subject"

Violation(kind, who, names, n) == [kind |-> kind, who |-> who, names |-> names, n |-> n]

overlapping(assignments, slot) ==
    SelectSeq(assignments,
              LAMBDA a : /\ a.day = slot.day
                         /\ timesOverlap(a.startTime, a.endTime, slot.startTime, slot.endTime))

durationViolations(subject, slot) ==
    IF slot.duration < subject.duration
    THEN << Violation("Insufficient time slot duration", "", <<>>, slot.duration) >>
    ELSE <<>>

\* the variant without the occupancy check
timeViolationsNone(config, assignments, slot) == <<>>

timeViolations(config, assignments, slot) ==
    LET timeConflictingAssignments == overlapping(assignments, slot)
    IN IF Len(timeConflictingAssignments) > 0
       THEN << Violation("Time slot already occupied", "",
                         MapSeq(timeConflictingAssignments,
                                LAMBDA a : subjectNameOf(config, a)), 0) >>
       ELSE <<>>

\* fault: the weekly limit compared with > instead of >=
teacherWeeklyLimitOffByOne(teacherWeeklyAssignments) ==
    Len(teacherWeeklyAssignments) > MAX_TEACHER_SLOTS_PER_WEEK

teacherWeeklyLimitReached(teacherWeeklyAssignments) ==
    Len(teacherWeeklyAssignments) >= MAX_TEACHER_SLOTS_PER_WEEK

teacherViolations(config, assignments, subject, slot) ==
    LET teacherConflictingAssignments ==
            SelectSeq(overlapping(assignments, slot),
                      LAMBDA a : a.teacherId = subject.teacher)
        teacherWeeklyAssignments ==
            SelectSeq(assignments, LAMBDA a : a.teacherId = subject.teacher)
    IN IF ~Truthy(subject.teacher) THEN <<>>
       ELSE (IF Len(teacherConflictingAssignments) > 0
             THEN << Violation("Teacher is already assigned", subject.teacher,
                               MapSeq(teacherConflictingAssignments,
                                      LAMBDA a : subjectNameOf(config, a)), 0) >>
             ELSE <<>>)
            \o
            (IF teacherWeeklyLimitReached(teacherWeeklyAssignments)
             THEN << Violation("Teacher has reached maximum weekly limit", subject.teacher,
                               <<>>, Len(teacherWeeklyAssignments)) >>
             ELSE <<>>)

\* fault: a room counts as occupied by any entry of the day
roomViolationsSameDay(config, assignments, subject, slot) ==
    LET roomConflictingAssignments ==
            SelectSeq(assignments,
                      LAMBDA a : a.roomId = subject.room /\ a.day = slot.day)
    IN IF Truthy(subject.room) /\ Len(roomConflictingAssignments) > 0
       THEN << Violation("Room is already occupied", subject.room,
                         MapSeq(roomConflictingAssignments,
                                LAMBDA a : subjectNameOf(config, a)), 0) >>
       ELSE <<>>

roomViolations(config, assignments, subject, slot) ==
    LET roomConflictingAssignments ==
            SelectSeq(overlapping(assignments, slot),
                      LAMBDA a : a.roomId = subject.room)
    IN IF Truthy(subject.room) /\ Len(roomConflictingAssignments) > 0
       THEN << Violation("Room is already occupied", subject.room,
                         MapSeq(roomConflictingAssignments,
                                LAMBDA a : subjectNameOf(config, a)), 0) >>
       ELSE <<>>

detectConflicts(config, assignments, subject, slot) ==
    durationViolations(subject, slot)
      \o timeViolations(config, assignments, slot)
      \o teacherViolations(config, assignments, subject, slot)
      \o roomViolations(config, assignments, subject, slot)

\* The conflict description, kept structured: the subject, the teacher's
\* days, and per rejected slot (keyed by day, start and end, which identify a
\* slot of SlotPool) its violations.  The suggestion prose appended to the
\* text is not modelled.
generateConflictReport(assignments, subject, conflictsBySlot, availableSlots) ==
    [subject |-> subject.name,
     teacherDays |-> IF Truthy(subject.teacher)
                     THEN getTeacherAssignedDays(assignments, subject.teacher)
                     ELSE <<>>,
     noCompatibleSlots |-> Len(availableSlots) = 0,
     bySlot |-> conflictsBySlot]

\* an entry identity: subject id, slot id and the Date.now()/Math.random()
\* part, a value that is new for every entry
EntryId(subject, slot, stamp) == <<subject.id, slot.id, stamp>>

MkEntry(subject, slot, stamp) ==
    [id |-> EntryId(subject, slot, stamp),
     subjectId |-> subject.id,
     timeSlotId |-> slot.id,
     teacherId |-> subject.teacher,
     roomId |-> subject.room,
     day |-> slot.day,
     startTime |-> slot.startTime,
     endTime |-> slot.endTime]

\* assignSubject: <<entry>> for the first available slot without conflicts,
\* else <<>> and one conflict appended to the conflicts list
assignSubject(config, assignments, conflicts, subject, stamp) ==
    LET availableSlots == getAvailableSlots(config, assignments, subject)
        conflictsBySlot ==
            [i \in DOMAIN availableSlots |->
                [slot |-> <<availableSlots[i].day, availableSlots[i].startTime,
                            availableSlots[i].endTime>>,
                 conflicts |-> detectConflicts(config, assignments, subject,
                                               availableSlots[i])]]
        free == { i \in DOMAIN availableSlots : Len(conflictsBySlot[i].conflicts) = 0 }
    IN IF free # {}
       THEN LET first == CHOOSE i \in free : \A j \in free : i <= j
            IN [entry |-> << MkEntry(subject, availableSlots[first], stamp) >>,
                conflicts |-> conflicts]
       ELSE [entry |-> <<>>,
             conflicts |-> Append(conflicts,
                 [type |-> "scheduling_conflict",
                  description |-> generateConflictReport(assignments, subject,
                                                         conflictsBySlot, availableSlots),
                  affectedEntries |-> <<>>])]

\* the comparator of prioritizeSubjects (negative: a first)
compareSubjects(config, assignments, a, b) ==
    LET aTeacherDays == Len(getTeacherAssignedDays(assignments, a.teacher))
        bTeacherDays == Len(getTeacherAssignedDays(assignments, b.teacher))
        aTeacherLoad == getTeacherTotalLoad(config, a.teacher)
        bTeacherLoad == getTeacherTotalLoad(config, b.teacher)
        aNewDaySlots ==
            Len(SelectSeq(getAvailableSlots(config, assignments, a),
                          LAMBDA slot : slot.day \notin
                              Range(getTeacherAssignedDays(assignments, a.teacher))))
        bNewDaySlots ==
            Len(SelectSeq(getAvailableSlots(config, assignments, b),
                          LAMBDA slot : slot.day \notin
                              Range(getTeacherAssignedDays(assignments, b.teacher))))
        aSlots == Len(getAvailableSlots(config, assignments, a))
        bSlots == Len(getAvailableSlots(config, assignments, b))
    IN IF aTeacherDays # bTeacherDays THEN aTeacherDays - bTeacherDays
       ELSE IF aTeacherLoad # bTeacherLoad THEN aTeacherLoad - bTeacherLoad
       ELSE IF aNewDaySlots # bNewDaySlots THEN bNewDaySlots - aNewDaySlots
       ELSE IF aSlots # bSlots THEN aSlots - bSlots
       ELSE b.frequency - a.frequency

\* Array.prototype.sort is stable: x goes before the first element it is
\* strictly smaller than
RECURSIVE InsertSorted(_, _, _, _)
InsertSorted(config, assignments, sorted, x) ==
    IF sorted = <<>> THEN << x >>
    ELSE IF compareSubjects(config, assignments, x, Head(sorted)) < 0
         THEN << x >> \o sorted
         ELSE << Head(sorted) >> \o InsertSorted(config, assignments, Tail(sorted), x)

RECURSIVE SortSubjects(_, _, _)
SortSubjects(config, assignments, subjects) ==
    IF subjects = <<>> THEN <<>>
    ELSE InsertSorted(config, assignments,
                      SortSubjects(config, assignments, SubSeq(subjects, 1, Len(subjects) - 1)),
                      subjects[Len(subjects)])

\* the variant that leaves the subjects in configuration order
prioritizeSubjectsUnsorted(config, assignments) == config.subjects

prioritizeSubjects(config, assignments) == SortSubjects(config, assignments, config.subjects)

\* the attempts of the two nested loops of generateTimetable, in order:
\* each subject of the sorted list, frequency times
RECURSIVE Repeat(_, _)
Repeat(x, n) == IF n <= 0 THEN <<>> ELSE << x >> \o Repeat(x, n - 1)

\* the variant that attempts each subject once
attemptsOncePerSubject(sortedSubjects) == sortedSubjects

RECURSIVE attempts(_)
attempts(sortedSubjects) ==
    IF sortedSubjects = <<>> THEN <<>>
    ELSE Repeat(Head(sortedSubjects), Head(sortedSubjects).frequency)
           \o attempts(Tail(sortedSubjects))

\* fault: the lists of the previous run are kept
resetStateKeep(old) == old

\* "this.assignments = []; this.conflicts = [];" at the start of a run
resetState(old) == <<>>

\* fault: a failed attempt takes back the entry committed last
loopBodyBacktrack(config, st, subject) ==
    LET r == assignSubject(config, st.assignments, st.conflicts, subject, st.clock)
    IN [assignments |-> IF r.entry = <<>> /\ st.assignments # <<>>
                        THEN SubSeq(st.assignments, 1, Len(st.assignments) - 1)
                        ELSE st.assignments \o r.entry,
        conflicts |-> r.conflicts,
        totalAssignments |-> st.totalAssignments + 1,
        successfulAssignments |-> st.successfulAssignments + Len(r.entry),
        clock |-> st.clock + Len(r.entry)]

\* fault: an attempt is counted only when it succeeds
loopBodyCountSuccesses(config, st, subject) ==
    LET r == assignSubject(config, st.assignments, st.conflicts, subject, st.clock)
    IN [assignments |-> st.assignments \o r.entry,
        conflicts |-> r.conflicts,
        totalAssignments |-> st.totalAssignments + Len(r.entry),
        successfulAssignments |-> st.successfulAssignments + Len(r.entry),
        clock |-> st.clock + Len(r.entry)]

\* the body of the inner loop: one attempt
loopBody(config, st, subject) ==
    LET r == assignSubject(config, st.assignments, st.conflicts, subject, st.clock)
    IN [assignments |-> st.assignments \o r.entry,
        conflicts |-> r.conflicts,
        totalAssignments |-> st.totalAssignments + 1,
        successfulAssignments |-> st.successfulAssignments + Len(r.entry),
        clock |-> st.clock + Len(r.entry)]

\* an exact rational in lowest terms
RECURSIVE GCD(_, _)
GCD(a, b) == IF b = 0 THEN a ELSE GCD(b, a % b)

Rational(num, den) ==
    LET g == GCD(num, den) IN [num |-> num \div g, den |-> den \div g]

Hundred == Rational(100, 1)

completionRateOf(totalAssignments, successfulAssignments) ==
    IF totalAssignments > 0
    THEN Rational(successfulAssignments * 100, totalAssignments)
    ELSE Rational(0, 1)

\* fault: success decided by the conflicts list alone
successOfConflictsOnly(conflicts, completionRate) ==
    Len(conflicts) = 0

successOf(conflicts, completionRate) ==
    Len(conflicts) = 0 /\ completionRate = Hundred

\* the value generateTimetable returns
resultOf(st) ==
    LET completionRate == completionRateOf(st.totalAssignments, st.successfulAssignments)
    IN [entries |-> st.assignments,
        conflicts |-> st.conflicts,
        success |-> successOf(st.conflicts, completionRate),
        completionRate |-> completionRate]

RECURSIVE runLoops(_, _, _)
runLoops(config, st, todo) ==
    IF todo = <<>> THEN st
    ELSE LET next == loopBody(config, st, Head(todo))
         IN runLoops(config, next, Tail(todo))

\* generateTimetable as one call on an instance whose lists hold
\* oldAssignments and oldConflicts: the instance state it leaves
generateTimetable(config, oldAssignments, oldConflicts, clock0) ==
    LET start == [assignments |-> resetState(oldAssignments),
                  conflicts |-> resetState(oldConflicts),
                  totalAssignments |-> 0,
                  successfulAssignments |-> 0,
                  clock |-> clock0]
    IN runLoops(config, start, attempts(prioritizeSubjects(config, start.assignments)))

\* ------------------------------------------------------------------------
\* The page (Home): its inputs
\* ------------------------------------------------------------------------
Null == <<>>

\* generateDefaultTimeSlots, with the first two work days and the first two
\* periods of its tables
generateDefaultTimeSlots ==
    << MkSlot("monday-period-1",  "Monday",  <<8, 30>>, <<9, 20>>),
       MkSlot("monday-period-2",  "Monday",  <<9, 20>>, <<10, 10>>),
       MkSlot("tuesday-period-1", "Tuesday", <<8, 30>>, <<9, 20>>),
       MkSlot("tuesday-period-2", "Tuesday", <<9, 20>>, <<10, 10>>) >>

\* what the user types into TimeSlotForm (newSlot); id stands for the
\* `custom-${Date.now()}` identity the slot gets.  The last one ends before
\* it starts.
CustomSlotForms ==
    { [id |-> "custom-a", day |-> "Monday",  startTime |-> <<9, 0>>,  endTime |-> <<10, 0>>],
      [id |-> "custom-c", day |-> "Monday",  startTime |-> <<9, 20>>, endTime |-> <<9, 0>>] }

\* what the user types into SubjectForm (subjectForm); i stands for the
\* `subject-${Date.now()}-...` identity the subject gets
SubjectForm(i, teacher, duration, frequency, room) ==
    [i |-> i, name |-> SubjectNames[i], teacher |-> teacher, duration |-> duration,
     frequency |-> frequency, room |-> room]

SubjectForms ==
    { SubjectForm(1, "Ann", 50, 2, ""),
      SubjectForm(2, "Ann", 60, 1, "R1"),
      SubjectForm(3, "Ann", 50, 1, ""),
      SubjectForm(3, " ",   50, 1, "") }

\* String.trim() on the strings of the input sets
trim(s) == IF IsBlank(s) THEN "" ELSE s

\* `value.trim() || undefined`
trimOrUndefined(s) == IF trim(s) = "" THEN Undefined ELSE trim(s)

\* SubjectForm.validateSubject: the checks that can fail on SubjectForms
\* (names and teacher names of the input sets have two characters or more)
validateSubject(subjectList, form) ==
    LET existingTeacherLoad ==
            SumSeq(MapSeq(SelectSeq(subjectList, LAMBDA s : s.teacher = trim(form.teacher)),
                          LAMBDA s : s.frequency))
    IN (IF trim(form.name) = "" THEN << "Subject name is required" >>
        ELSE IF \E k \in DOMAIN subjectList : subjectList[k].name = trim(form.name)
        THEN << "Subject name already exists" >>
        ELSE <<>>)
       \o (IF trim(form.teacher) = "" THEN << "Teacher name is required" >> ELSE <<>>)
       \o (IF form.duration < MIN_SUBJECT_DURATION THEN << "Duration too short" >>
           ELSE IF form.duration > MAX_SUBJECT_DURATION THEN << "Duration too long" >>
           ELSE <<>>)
       \o (IF form.frequency < MIN_FREQUENCY THEN << "Frequency too low" >>
           ELSE IF form.frequency > MAX_FREQUENCY THEN << "Frequency too high" >>
           ELSE <<>>)
       \o (IF existingTeacherLoad + form.frequency > MAX_TEACHER_SLOTS_PER_WEEK
           THEN << "Teacher would exceed the weekly limit" >>
           ELSE <<>>)

\* the Subject handleAddSubject builds from an accepted form
subjectOfForm(form) ==
    [id |-> SubjectIds[form.i], name |-> trim(form.name),
     duration |-> form.duration, frequency |-> form.frequency,
     teacher |-> trim(form.teacher), room |-> trimOrUndefined(form.room),
     preferredTimeSlots |-> <<>>]

\* the TimeSlot addTimeSlot builds from an accepted form
slotOfForm(form) == MkSlot(form.id, form.day, form.startTime, form.endTime)

\* ------------------------------------------------------------------------
\* The page: the entry handlers
\* ------------------------------------------------------------------------
\* a message of the interactive checks: its category tag and what it names
PageMsg(tag, who, at) == [tag |-> tag, who |-> who, at |-> at]

\* the one message without a category tag
NoTimetableGenerated == PageMsg("No timetable generated.", Undefined, <<>>)

\* a Partial<TimetableEntry>: keys are the properties it has, the other
\* fields hold filler values that are never read
Updates(keys, day, startTime, subjectId, teacherId, roomId) ==
    [keys |-> keys, day |-> day, startTime |-> startTime, subjectId |-> subjectId,
     teacherId |-> teacherId, roomId |-> roomId]

\* `updates.k` is truthy (a time is a non-empty string)
givenDay(updates) == "day" \in updates.keys /\ Truthy(updates.day)
givenStartTime(updates) == "startTime" \in updates.keys
givenTeacherId(updates) == "teacherId" \in updates.keys /\ Truthy(updates.teacherId)
givenRoomId(updates) == "roomId" \in updates.keys /\ Truthy(updates.roomId)
givenSubjectId(updates) == "subjectId" \in updates.keys /\ Truthy(updates.subjectId)

\* fault: the time check looks at the entry's current day
newDayOfCurrent(currentEntry, updates) == currentEntry.day

\* `updates.day || currentEntry.day`, `updates.startTime || currentEntry.startTime`
newDayOf(currentEntry, updates) ==
    IF givenDay(updates) THEN updates.day ELSE currentEntry.day

newStartTimeOf(currentEntry, updates) ==
    IF givenStartTime(updates) THEN updates.startTime ELSE currentEntry.startTime

\* the variant that looks at the day only
positionChangedDayOnly(currentEntry, updates) ==
    givenDay(updates) /\ updates.day # currentEntry.day

\* the condition under which checkUpdateConflicts looks for a time conflict
positionChanged(currentEntry, updates) ==
    \/ givenDay(updates) /\ updates.day # currentEntry.day
    \/ givenStartTime(updates) /\ updates.startTime # currentEntry.startTime

\* { ...entry, ...updates }
spread(entry, updates) ==
    [id         |-> entry.id,
     subjectId  |-> IF "subjectId" \in updates.keys THEN updates.subjectId ELSE entry.subjectId,
     timeSlotId |-> entry.timeSlotId,
     teacherId  |-> IF "teacherId" \in updates.keys THEN updates.teacherId ELSE entry.teacherId,
     roomId     |-> IF "roomId" \in updates.keys THEN updates.roomId ELSE entry.roomId,
     day        |-> IF "day" \in updates.keys THEN updates.day ELSE entry.day,
     startTime  |-> IF "startTime" \in updates.keys THEN updates.startTime ELSE entry.startTime,
     endTime    |-> entry.endTime]

\* the message both checks push for a subject no list holds
invalidSubjectUntagged(subjectId) == PageMsg("Subject does not exist", subjectId, <<>>)

invalidSubject(subjectId) == PageMsg("INVALID_SUBJECT", subjectId, <<>>)

\* the variant that lets a fourth entry through
updateWeeklyLimitOffByOne(teacherWeeklyCount) ==
    teacherWeeklyCount > MAX_TEACHER_SLOTS_PER_WEEK

\* `teacherWeeklyCount >= 3` of checkUpdateConflicts
updateWeeklyLimitReached(teacherWeeklyCount) ==
    teacherWeeklyCount >= MAX_TEACHER_SLOTS_PER_WEEK

checkUpdateConflicts(timetable, subjectList, entryId, updates) ==
    IF timetable = Null THEN <<>>
    ELSE LET entries == timetable[1].entries
             found == SelectSeq(entries, LAMBDA e : e.id = entryId)
         IN IF found = <<>> THEN <<>>
            ELSE LET currentEntry == found[1]
                     newDay == newDayOf(currentEntry, updates)
                     newStartTime == newStartTimeOf(currentEntry, updates)
                     there == SelectSeq(entries, LAMBDA e :
                                  e.id # entryId /\ e.day = newDay /\ e.startTime = newStartTime)
                     teacherWeeklyCount ==
                         Len(SelectSeq(entries, LAMBDA e :
                                 e.id # entryId /\ e.teacherId = updates.teacherId))
                 IN (IF positionChanged(currentEntry, updates) /\ there # <<>>
                     THEN << PageMsg("TIME_CONFLICT", Undefined, <<newDay, newStartTime>>) >>
                     ELSE <<>>)
                    \o (IF givenTeacherId(updates) /\ updates.teacherId # currentEntry.teacherId
                        THEN (IF \E k \in DOMAIN there : there[k].teacherId = updates.teacherId
                              THEN << PageMsg("TEACHER_CONFLICT", updates.teacherId,
                                              <<newDay, newStartTime>>) >>
                              ELSE <<>>)
                             \o (IF updateWeeklyLimitReached(teacherWeeklyCount)
                                 THEN << PageMsg("WORKLOAD_VIOLATION", updates.teacherId, <<>>) >>
                                 ELSE <<>>)
                        ELSE <<>>)
                    \o (IF /\ givenRoomId(updates) /\ updates.roomId # currentEntry.roomId
                           /\ \E k \in DOMAIN there : there[k].roomId = updates.roomId
                        THEN << PageMsg("ROOM_CONFLICT", updates.roomId,
                                        <<newDay, newStartTime>>) >>
                        ELSE <<>>)
                    \o (IF /\ givenSubjectId(updates) /\ updates.subjectId # currentEntry.subjectId
                           /\ ~ \E k \in DOMAIN subjectList : subjectList[k].id = updates.subjectId
                        THEN << invalidSubject(updates.subjectId) >>
                        ELSE <<>>)

\* fault: an accepted update keeps the conflicts of the generation
handleUpdateEntryKeepConflicts(timetable, subjectList, entryId, updates) ==
    IF timetable = Null
    THEN [ret |-> << NoTimetableGenerated >>, timetable |-> timetable]
    ELSE LET found == checkUpdateConflicts(timetable, subjectList, entryId, updates)
         IN IF Len(found) > 0
            THEN [ret |-> found, timetable |-> timetable]
            ELSE [ret |-> <<>>,
                  timetable |-> << [timetable[1] EXCEPT
                      !.entries = MapSeq(timetable[1].entries, LAMBDA e :
                                      IF e.id = entryId THEN spread(e, updates) ELSE e)] >>]

\* handleUpdateEntry: what it returns and the timetable it leaves
handleUpdateEntry(timetable, subjectList, entryId, updates) ==
    IF timetable = Null
    THEN [ret |-> << NoTimetableGenerated >>, timetable |-> timetable]
    ELSE LET found == checkUpdateConflicts(timetable, subjectList, entryId, updates)
         IN IF Len(found) > 0
            THEN [ret |-> found, timetable |-> timetable]
            ELSE [ret |-> <<>>,
                  timetable |-> << [timetable[1] EXCEPT
                      !.entries = MapSeq(timetable[1].entries, LAMBDA e :
                                      IF e.id = entryId THEN spread(e, updates) ELSE e),
                      !.conflicts = <<>>] >>]

\* handleDeleteEntry: the timetable it leaves
handleDeleteEntry(timetable, entryId) ==
    IF timetable = Null THEN timetable
    ELSE << [timetable[1] EXCEPT
               !.entries = SelectSeq(timetable[1].entries, LAMBDA e : e.id # entryId)] >>

\* the variant that lets a fourth entry through
addWeeklyLimitOffByOne(teacherWeeklyCount) ==
    teacherWeeklyCount > MAX_TEACHER_SLOTS_PER_WEEK

\* `teacherWeeklyCount >= 3` of checkAddConflicts
addWeeklyLimitReached(teacherWeeklyCount) ==
    teacherWeeklyCount >= MAX_TEACHER_SLOTS_PER_WEEK

checkAddConflicts(timetable, subjectList, newEntry) ==
    IF timetable = Null THEN <<>>
    ELSE LET entries == timetable[1].entries
             there == SelectSeq(entries, LAMBDA e :
                          e.day = newEntry.day /\ e.startTime = newEntry.startTime)
             teacherWeeklyCount ==
                 Len(SelectSeq(entries, LAMBDA e : e.teacherId = newEntry.teacherId))
         IN (IF there # <<>>
             THEN << PageMsg("TIME_CONFLICT", Undefined, <<newEntry.day, newEntry.startTime>>) >>
             ELSE <<>>)
            \o (IF Truthy(newEntry.teacherId)
                THEN (IF \E k \in DOMAIN there : there[k].teacherId = newEntry.teacherId
                      THEN << PageMsg("TEACHER_CONFLICT", newEntry.teacherId, <<>>) >>
                      ELSE <<>>)
                     \o (IF addWeeklyLimitReached(teacherWeeklyCount)
                         THEN << PageMsg("WORKLOAD_VIOLATION", newEntry.teacherId, <<>>) >>
                         ELSE <<>>)
                ELSE <<>>)
            \o (IF /\ Truthy(newEntry.roomId)
                   /\ \E k \in DOMAIN there : there[k].roomId = newEntry.roomId
                THEN << PageMsg("ROOM_CONFLICT", newEntry.roomId, <<>>) >>
                ELSE <<>>)
            \o (IF /\ Truthy(newEntry.subjectId)
                   /\ ~ \E k \in DOMAIN subjectList : subjectList[k].id = newEntry.subjectId
                THEN << invalidSubject(newEntry.subjectId) >>
                ELSE <<>>)
            \o (IF ~ Truthy(newEntry.subjectId) \/ IsBlank(newEntry.subjectId)
                THEN << PageMsg("MISSING_SUBJECT", Undefined, <<>>) >>
                ELSE <<>>)
            \o (IF ~ Truthy(newEntry.teacherId) \/ IsBlank(newEntry.teacherId)
                THEN << PageMsg("MISSING_TEACHER", Undefined, <<>>) >>
                ELSE <<>>)

\* the identity `manual-${Date.now()}`
ManualId(stamp) == <<"manual", "", stamp>>

\* { ...newEntry, id }
entryWithId(newEntry, stamp) ==
    [id         |-> ManualId(stamp),
     subjectId  |-> newEntry.subjectId,
     timeSlotId |-> newEntry.timeSlotId,
     teacherId  |-> newEntry.teacherId,
     roomId     |-> newEntry.roomId,
     day        |-> newEntry.day,
     startTime  |-> newEntry.startTime,
     endTime    |-> newEntry.endTime]

\* handleAddEntry: what it returns and the timetable it leaves
handleAddEntry(timetable, subjectList, newEntry, stamp) ==
    IF timetable = Null
    THEN [ret |-> << NoTimetableGenerated >>, timetable |-> timetable]
    ELSE LET found == checkAddConflicts(timetable, subjectList, newEntry)
         IN IF Len(found) > 0
            THEN [ret |-> found, timetable |-> timetable]
            ELSE [ret |-> <<>>,
                  timetable |-> << [timetable[1] EXCEPT
                      !.entries = Append(timetable[1].entries,
                                         entryWithId(newEntry, stamp))] >>]

\* the page runs the engine only when the validation has no error
blocksOnWarnings(v) == ~ v.isValid \/ Len(v.warnings) > 0

blocksGeneration(v) == ~ v.isValid

\* what the edit modal's form can hold when it is saved (EditEntryModal
\* formState): the first subject of the select, and the teacher and room
\* texts
TeacherTexts == {"", "Ann", "Bob"}
RoomTexts == {"", "R1"}

FillerTime == <<0, 0>>

\* EditEntryModal.handleSave: the updates it passes to onSave
ModalSaves(subjectList) ==
    { Updates({"subjectId", "teacherId", "roomId"}, "", FillerTime,
              subjectList[k].id, trimOrUndefined(t), trimOrUndefined(r)) :
        k \in DOMAIN subjectList \cap {1}, t \in TeacherTexts, r \in RoomTexts }

\* updates of the other properties handleUpdateEntry checks: a move to
\* another day or to another start time, a subject no list holds, and a
\* move to another day together with a teacher or a room
MoveDays == {"Tuesday", "Wednesday"}
MoveStartTimes == { <<8, 30>>, <<9, 20>> }

DirectUpdates ==
    { Updates({"day"}, d, FillerTime, "", "", "") : d \in MoveDays }
    \cup { Updates({"startTime"}, "", t, "", "", "") : t \in MoveStartTimes }
    \cup { Updates({"subjectId"}, "", FillerTime, "ghost", "", "") }
    \cup { Updates({"day", "teacherId"}, d, FillerTime, "", t, "") :
              d \in MoveDays, t \in Range(TeacherNames) }
    \cup { Updates({"day", "roomId"}, d, FillerTime, "", "", "R1") : d \in MoveDays }

\* AddEntryModal.handleAdd: the entry it passes to onAdd for the slot the
\* modal was opened on
AddSubjectChoices(subjectList) ==
    {""} \cup { subjectList[k].id : k \in DOMAIN subjectList \cap {1} }

NewEntry(slot, subjectId, teacherText, roomText) ==
    [subjectId  |-> subjectId,
     timeSlotId |-> slot.id,
     teacherId  |-> trimOrUndefined(teacherText),
     roomId     |-> trimOrUndefined(roomText),
     day        |-> slot.day,
     startTime  |-> slot.startTime,
     endTime    |-> slot.endTime]

NewEntries(subjectList, slotList) ==
    { NewEntry(slotList[k], s, t, "") :
        k \in DOMAIN slotList, s \in AddSubjectChoices(subjectList), t \in TeacherTexts }

\* the record of a handler call: the handler and what it returned
Call(op, ret) == [op |-> op, ret |-> ret]

NoCall == Call("none", <<>>)

\* the record of a save request: the control it came from, "button" (Save
\* Changes) or "modal" (the unsaved-changes dialog), and how it ended
Save(via, outcome) == [via |-> via, outcome |-> outcome]

NoSave == Save("none", "none")

\* how the PUT request can end: response.ok, a response that is not ok, and
\* a rejected fetch
SaveOutcomes == {"ok", "not_ok", "network_error"}

\* the position of a day name in the order localeCompare gives
DayRank(day) ==
    CASE day = "Friday"    -> 1
      [] day = "Monday"    -> 2
      [] day = "Saturday"  -> 3
      [] day = "Sunday"    -> 4
      [] day = "Thursday"  -> 5
      [] day = "Tuesday"   -> 6
      [] day = "Wednesday" -> 7
      [] OTHER             -> 0

\* `${a.day}-${a.startTime}`.localeCompare(`${b.day}-${b.startTime}`) <= 0
keyNotAfter(a, b) ==
    \/ DayRank(a.day) < DayRank(b.day)
    \/ /\ DayRank(a.day) = DayRank(b.day)
       /\ timeToMinutes(a.startTime) <= timeToMinutes(b.startTime)

\* Array.prototype.sort with that comparator (stable)
RECURSIVE sortByDayAndStart(_)
sortByDayAndStart(s) ==
    IF s = <<>> THEN <<>>
    ELSE LET front == sortByDayAndStart(SubSeq(s, 1, Len(s) - 1))
             x == s[Len(s)]
             keep == { i \in DOMAIN front : keyNotAfter(front[i], x) }
             n == IF keep = {} THEN 0 ELSE CHOOSE i \in keep : \A j \in keep : j <= i
         IN SubSeq(front, 1, n) \o << x >> \o SubSeq(front, n + 1, Len(front))

\* the comparable format of checkForUnsavedChanges
comparableEntries(entries) ==
    sortByDayAndStart(MapSeq(entries, LAMBDA e :
        [subjectId |-> e.subjectId, teacherId |-> e.teacherId, roomId |-> e.roomId,
         day |-> e.day, startTime |-> e.startTime, endTime |-> e.endTime]))

\* checkForUnsavedChanges, run by the effect on generatedTimetable and
\* loadedTimetable: the value it gives hasUnsavedChanges
checkForUnsavedChanges(loaded, generated) ==
    IF loaded = <<>> \/ generated = <<>> THEN FALSE
    ELSE comparableEntries(generated[1].entries)
            # comparableEntries(loaded[1].generatedTimetable.entries)

\* the Date.now() part of a new identity differs from that of every
\* identity the page still holds.  A manual entry takes the next number
\* after those; the entries of a run take the first block of numbers unless
\* the edit modal holds an identity of that block, and the second one then.
MaxOf(S) == IF S = {} THEN 0 ELSE CHOOSE m \in S : \A x \in S : x <= m

IdsOf(entries) == { entries[k].id : k \in DOMAIN entries }

StampsOf(ids) == { id[3] : id \in ids }

runStamp(held) ==
    IF \E n \in StampsOf(held) : n <= IdBlock THEN IdBlock + 1 ELSE 1

EntriesIn(timetable) == IF timetable = Null THEN <<>> ELSE timetable[1].entries

\* the configuration the editing specification starts from: three subjects
\* entered in order, the default slots and two custom slots
EditSubjects ==
    << subjectOfForm(SubjectForm(1, "Ann", 50, 2, "")),
       subjectOfForm(SubjectForm(2, "Ann", 60, 1, "R1")),
       subjectOfForm(SubjectForm(3, "Bob", 50, 1, "")) >>

EditTimeSlots ==
    generateDefaultTimeSlots
      \o << MkSlot("custom-a", "Monday",  <<9, 0>>,  <<10, 0>>),
            MkSlot("custom-b", "Tuesday", <<9, 20>>, <<10, 20>>) >>

\* ------------------------------------------------------------------------
\* State
\* ------------------------------------------------------------------------
VARIABLES
    \* a TimetableGenerator instance and the frame of its running call
    config,                 \* this.config
    assignments,            \* this.assignments
    conflicts,              \* this.conflicts
    pc,                     \* "idle", or "loop" inside generateTimetable
    sortedSubjects,         \* the list the loops of generateTimetable run over
    attempt,                \* index of the next attempt of the loops
    totalAssignments,
    successfulAssignments,
    clock,                  \* source of the fresh part of entry identities
    returned,               \* the values generateTimetable has returned, in order
    validation,             \* <<v>>: the last value of validateConfiguration

    \* the page (Home) and its timetable grid
    subjects,               \* useState<Subject[]>
    timeSlots,              \* useState<TimeSlot[]>
    generatedTimetable,     \* Null, or <<t>> for a GeneratedTimetable t
    isGenerating,
    validationErrors,
    validationWarnings,
    pending,                \* <<config>> while the page's generateTimetable waits in its await
    editingEntry,           \* <<entry.id>> while the edit modal is open on entry
    calls,                  \* how many calls of the entry handlers have been made
    lastCall,               \* the last call of an entry handler and what it returned
    loadedTimetable,        \* Null, or <<t>> for the SavedTimetable t being viewed
    hasUnsavedChanges,
    showUnsavedModal,
    pendingAction,          \* Null, or <<"new-timetable">>
    lastSave                \* the last save request since the timetable was loaded

engineVars == <<config, assignments, conflicts, pc, sortedSubjects, attempt,
                totalAssignments, successfulAssignments, clock, returned, validation>>

\* what the page keeps about the saved timetable it shows
saveVars == <<loadedTimetable, hasUnsavedChanges, showUnsavedModal, pendingAction, lastSave>>

\* the same without the flag checkForUnsavedChanges sets
saveFrame == <<loadedTimetable, showUnsavedModal, pendingAction, lastSave>>

pageVars == <<subjects, timeSlots, generatedTimetable, isGenerating,
              validationErrors, validationWarnings, pending,
              editingEntry, calls, lastCall, saveVars>>

vars == <<engineVars, pageVars>>

\* no saved timetable is being viewed
SaveIdle ==
    /\ loadedTimetable = Null
    /\ hasUnsavedChanges = FALSE
    /\ showUnsavedModal = FALSE
    /\ pendingAction = Null
    /\ lastSave = NoSave

\* the page is not mounted when the engine is called directly
PageIdle ==
    /\ subjects = <<>>
    /\ timeSlots = <<>>
    /\ generatedTimetable = Null
    /\ isGenerating = FALSE
    /\ validationErrors = <<>>
    /\ validationWarnings = <<>>
    /\ pending = <<>>
    /\ editingEntry = <<>>
    /\ calls = 0
    /\ lastCall = NoCall
    /\ SaveIdle

\* ------------------------------------------------------------------------
\* The engine called directly, once, on any configuration; the loops of
\* generateTimetable are taken one attempt at a time
\* ------------------------------------------------------------------------
EngineInit ==
    /\ config \in Configs
    /\ assignments = <<>>
    /\ conflicts = <<>>
    /\ pc = "idle"
    /\ sortedSubjects = <<>>
    /\ attempt = 1
    /\ totalAssignments = 0
    /\ successfulAssignments = 0
    /\ clock = 1
    /\ returned = <<>>
    /\ validation = <<>>
    /\ PageIdle

\* generator.validateConfiguration()
ValidateCall ==
    /\ pc = "idle"
    /\ validation' = << validateConfiguration(config) >>
    /\ UNCHANGED <<config, assignments, conflicts, pc, sortedSubjects, attempt,
                   totalAssignments, successfulAssignments, clock, returned, pageVars>>

\* new TimetableGenerator(config): a second instance on the same configuration
NewInstance ==
    /\ pc = "idle"
    /\ returned # <<>>
    /\ assignments' = <<>>
    /\ conflicts' = <<>>
    /\ UNCHANGED <<config, pc, sortedSubjects, attempt, totalAssignments,
                   successfulAssignments, clock, returned, validation, pageVars>>

\* generateTimetable, up to the loops: reset the lists, sort the subjects
GenerateStart ==
    /\ pc = "idle"
    /\ returned = <<>>
    /\ assignments' = resetState(assignments)
    /\ conflicts' = resetState(conflicts)
    /\ sortedSubjects' = prioritizeSubjects(config, assignments')
    /\ totalAssignments' = 0
    /\ successfulAssignments' = 0
    /\ attempt' = 1
    /\ pc' = "loop"
    /\ UNCHANGED <<config, clock, returned, validation, pageVars>>

engineState ==
    [assignments |-> assignments, conflicts |-> conflicts,
     totalAssignments |-> totalAssignments,
     successfulAssignments |-> successfulAssignments, clock |-> clock]

\* one pass of the inner loop
AssignStep ==
    /\ pc = "loop"
    /\ attempt <= Len(attempts(sortedSubjects))
    /\ LET st == loopBody(config, engineState, attempts(sortedSubjects)[attempt])
       IN /\ assignments' = st.assignments
          /\ conflicts' = st.conflicts
          /\ totalAssignments' = st.totalAssignments
          /\ successfulAssignments' = st.successfulAssignments
          /\ clock' = st.clock
    /\ attempt' = attempt + 1
    /\ UNCHANGED <<config, pc, sortedSubjects, returned, validation, pageVars>>

\* generateTimetable, after the loops: compute the rate and return
GenerateReturn ==
    /\ pc = "loop"
    /\ attempt > Len(attempts(sortedSubjects))
    /\ returned' = Append(returned, resultOf(engineState))
    /\ pc' = "idle"
    /\ UNCHANGED <<config, assignments, conflicts, sortedSubjects, attempt,
                   totalAssignments, successfulAssignments, clock, validation, pageVars>>

Next ==
    \/ GenerateStart
    \/ AssignStep
    \/ GenerateReturn

Spec == EngineInit /\ [][Next]_vars

\* ------------------------------------------------------------------------
\* The engine called repeatedly, on one instance or on a new one
\* ------------------------------------------------------------------------
GenerateAgain ==
    /\ pc = "idle"
    /\ returned # <<>>
    /\ Len(returned) < MaxRuns
    /\ assignments' = resetState(assignments)
    /\ conflicts' = resetState(conflicts)
    /\ sortedSubjects' = prioritizeSubjects(config, assignments')
    /\ totalAssignments' = 0
    /\ successfulAssignments' = 0
    /\ attempt' = 1
    /\ pc' = "loop"
    /\ UNCHANGED <<config, clock, returned, validation, pageVars>>

RepeatNext ==
    \/ GenerateStart
    \/ GenerateAgain
    \/ AssignStep
    \/ GenerateReturn
    \/ NewInstance

\* the instances the repeated calls are made on: built on the longer slot
\* lists, where a call leaves entries, and conflicts, behind
RepeatInit ==
    /\ EngineInit
    /\ Len(config.timeSlots) >= Min(MaxSlots, Len(SlotPool)) - 2

RepeatSpec == RepeatInit /\ [][RepeatNext]_vars

\* ------------------------------------------------------------------------
\* The validator called directly, on any configuration
\* ------------------------------------------------------------------------
ValidatorNext == ValidateCall

ValidatorSpec == EngineInit /\ [][ValidatorNext]_vars

\* ------------------------------------------------------------------------
\* The page (Home): configuration forms, generate flow, clear
\* ------------------------------------------------------------------------
EngineIdle ==
    /\ config = [subjects |-> <<>>, timeSlots |-> <<>>]
    /\ assignments = <<>>
    /\ conflicts = <<>>
    /\ pc = "idle"
    /\ sortedSubjects = <<>>
    /\ attempt = 1
    /\ totalAssignments = 0
    /\ successfulAssignments = 0
    /\ clock = 1
    /\ returned = <<>>
    /\ validation = <<>>

\* the state hooks of Home at mount
PageInit ==
    /\ EngineIdle
    /\ subjects = <<>>
    /\ timeSlots = generateDefaultTimeSlots
    /\ generatedTimetable = Null
    /\ isGenerating = FALSE
    /\ validationErrors = <<>>
    /\ validationWarnings = <<>>
    /\ pending = <<>>
    /\ editingEntry = <<>>
    /\ calls = 0
    /\ lastCall = NoCall
    /\ SaveIdle

\* SubjectForm.handleAddSubject and the page's onAddSubject
handleAddSubject ==
    /\ \E form \in SubjectForms :
          /\ Len(validateSubject(subjects, form)) = 0
          /\ subjects' = Append(subjects, subjectOfForm(form))
    /\ UNCHANGED <<engineVars, saveVars, timeSlots, generatedTimetable, isGenerating,
                   validationErrors, validationWarnings, pending,
                   editingEntry, calls, lastCall>>

\* the page's onRemoveSubject
onRemoveSubject ==
    /\ \E k \in DOMAIN subjects :
          subjects' = SelectSeq(subjects, LAMBDA s : s.id # subjects[k].id)
    /\ UNCHANGED <<engineVars, saveVars, timeSlots, generatedTimetable, isGenerating,
                   validationErrors, validationWarnings, pending,
                   editingEntry, calls, lastCall>>

\* TimeSlotForm.addTimeSlot; a form is entered once
addTimeSlot ==
    /\ \E form \in CustomSlotForms :
          /\ ~ \E k \in DOMAIN timeSlots : timeSlots[k].id = form.id
          /\ ~ (calculateDuration(form.startTime, form.endTime) <= 0)
          /\ timeSlots' = Append(timeSlots, slotOfForm(form))
    /\ UNCHANGED <<engineVars, saveVars, subjects, generatedTimetable, isGenerating,
                   validationErrors, validationWarnings, pending,
                   editingEntry, calls, lastCall>>

\* TimeSlotForm.removeTimeSlot, offered for custom slots
removeTimeSlot ==
    /\ \E form \in CustomSlotForms :
          /\ \E k \in DOMAIN timeSlots : timeSlots[k].id = form.id
          /\ timeSlots' = SelectSeq(timeSlots, LAMBDA s : s.id # form.id)
    /\ UNCHANGED <<engineVars, saveVars, subjects, generatedTimetable, isGenerating,
                   validationErrors, validationWarnings, pending,
                   editingEntry, calls, lastCall>>

\* TimeSlotForm.resetToDefault
resetToDefault ==
    /\ timeSlots' = generateDefaultTimeSlots
    /\ UNCHANGED <<engineVars, saveVars, subjects, generatedTimetable, isGenerating,
                   validationErrors, validationWarnings, pending,
                   editingEntry, calls, lastCall>>

\* the Generate button is enabled
generateEnabled ==
    ~ (isGenerating \/ Len(subjects) = 0 \/ Len(validationErrors) > 0)

\* the page's generateTimetable, from the click to its await
Home_generateTimetable ==
    /\ generateEnabled
    /\ IF Len(subjects) = 0
       THEN /\ validationErrors' = << Msg("VALIDATION_ERROR", "no_subjects", "", 0, 0) >>
            /\ validationWarnings' = <<>>
            /\ UNCHANGED <<isGenerating, pending>>
       ELSE LET generatorConfig == [subjects |-> subjects, timeSlots |-> timeSlots]
                v == validateConfiguration(generatorConfig)
            IN IF blocksGeneration(v)
               THEN /\ validationErrors' = v.errors
                    /\ validationWarnings' = v.warnings
                    /\ UNCHANGED <<isGenerating, pending>>
               ELSE /\ validationErrors' = <<>>
                    /\ validationWarnings' = v.warnings
                    /\ isGenerating' = TRUE
                    /\ pending' = << generatorConfig >>
    /\ UNCHANGED <<engineVars, saveVars, subjects, timeSlots, generatedTimetable,
                   editingEntry, calls, lastCall>>

\* the page's generateTimetable, after its await: the engine runs on the
\* configuration the generator was built with
Home_generateTimetableResume ==
    /\ pending # <<>>
    /\ LET st == generateTimetable(pending[1], <<>>, <<>>,
                                   runStamp(Range(editingEntry)))
       IN generatedTimetable' = << resultOf(st) >>
    /\ isGenerating' = FALSE
    /\ pending' = <<>>
    /\ hasUnsavedChanges' = checkForUnsavedChanges(loadedTimetable, generatedTimetable')
    /\ UNCHANGED <<engineVars, saveFrame, subjects, timeSlots, validationErrors,
                   validationWarnings, editingEntry, calls, lastCall>>

clearAll ==
    /\ subjects' = <<>>
    /\ generatedTimetable' = Null
    /\ validationErrors' = <<>>
    /\ validationWarnings' = <<>>
    /\ hasUnsavedChanges' = checkForUnsavedChanges(loadedTimetable, generatedTimetable')
    /\ UNCHANGED <<engineVars, saveFrame, timeSlots, isGenerating, pending,
                   editingEntry, calls, lastCall>>

PageNext ==
    \/ handleAddSubject
    \/ onRemoveSubject
    \/ addTimeSlot
    \/ removeTimeSlot
    \/ resetToDefault
    \/ Home_generateTimetable
    \/ Home_generateTimetableResume
    \/ clearAll

PageSpec == PageInit /\ [][PageNext]_vars

\* ------------------------------------------------------------------------
\* The page with a configuration entered: generation and the entry
\* handlers of the timetable grid
\* ------------------------------------------------------------------------
EditInit ==
    /\ EngineIdle
    /\ subjects = EditSubjects
    /\ timeSlots = EditTimeSlots
    /\ generatedTimetable = Null
    /\ isGenerating = FALSE
    /\ validationErrors = <<>>
    /\ validationWarnings = <<>>
    /\ pending = <<>>
    /\ editingEntry = <<>>
    /\ calls = 0
    /\ lastCall = NoCall
    /\ SaveIdle

\* TimetableGrid.handleEditEntry: the edit modal opens on an entry
handleEditEntry ==
    /\ editingEntry = <<>>
    /\ \E k \in DOMAIN EntriesIn(generatedTimetable) :
          editingEntry' = << EntriesIn(generatedTimetable)[k].id >>
    /\ UNCHANGED <<engineVars, saveVars, subjects, timeSlots, generatedTimetable, isGenerating,
                   validationErrors, validationWarnings, pending,
                   calls, lastCall>>

\* the edit modal's onClose
closeEditModal ==
    /\ editingEntry # <<>>
    /\ editingEntry' = <<>>
    /\ UNCHANGED <<engineVars, saveVars, subjects, timeSlots, generatedTimetable, isGenerating,
                   validationErrors, validationWarnings, pending,
                   calls, lastCall>>

\* EditEntryModal.handleSave: handleUpdateEntry on the entry the modal
\* holds; the modal closes when no conflict comes back
EditEntryModal_handleSave ==
    /\ editingEntry # <<>>
    /\ calls < MaxEdits
    /\ \E updates \in ModalSaves(subjects) :
          LET r == handleUpdateEntry(generatedTimetable, subjects, editingEntry[1], updates)
          IN /\ generatedTimetable' = r.timetable
             /\ lastCall' = Call("update", r.ret)
             /\ editingEntry' = IF Len(r.ret) > 0 THEN editingEntry ELSE <<>>
    /\ calls' = calls + 1
    /\ hasUnsavedChanges' = checkForUnsavedChanges(loadedTimetable, generatedTimetable')
    /\ UNCHANGED <<engineVars, saveFrame, subjects, timeSlots, isGenerating, validationErrors,
                   validationWarnings, pending>>

\* handleUpdateEntry called on an entry of the timetable with updates of
\* its day and start time, while no modal is open
UpdateEntry ==
    /\ calls < MaxEdits
    /\ ~showUnsavedModal
    /\ editingEntry = <<>>
    /\ \E k \in DOMAIN EntriesIn(generatedTimetable), updates \in DirectUpdates :
          LET entryId == EntriesIn(generatedTimetable)[k].id
              r == handleUpdateEntry(generatedTimetable, subjects, entryId, updates)
          IN /\ generatedTimetable' = r.timetable
             /\ lastCall' = Call("update", r.ret)
    /\ calls' = calls + 1
    /\ hasUnsavedChanges' = checkForUnsavedChanges(loadedTimetable, generatedTimetable')
    /\ UNCHANGED <<engineVars, saveFrame, subjects, timeSlots, isGenerating, validationErrors,
                   validationWarnings, pending, editingEntry>>

\* handleDeleteEntry, from the grid or from the modal (which then closes)
DeleteEntry ==
    /\ calls < MaxEdits
    /\ ~showUnsavedModal
    /\ \E entryId \in IdsOf(EntriesIn(generatedTimetable)) \cup Range(editingEntry) :
          /\ editingEntry # <<>> => entryId = editingEntry[1]
          /\ generatedTimetable' = handleDeleteEntry(generatedTimetable, entryId)
          /\ lastCall' = Call("delete", <<>>)
    /\ editingEntry' = <<>>
    /\ calls' = calls + 1
    /\ hasUnsavedChanges' = checkForUnsavedChanges(loadedTimetable, generatedTimetable')
    /\ UNCHANGED <<engineVars, saveFrame, subjects, timeSlots, isGenerating, validationErrors,
                   validationWarnings, pending>>

\* AddEntryModal.handleAdd: handleAddEntry for a slot of the grid
AddEntry ==
    /\ calls < MaxEdits
    /\ ~showUnsavedModal
    /\ editingEntry = <<>>
    /\ \E newEntry \in NewEntries(subjects, timeSlots) :
          LET stamp == 1 + MaxOf(StampsOf(IdsOf(EntriesIn(generatedTimetable)) \cup Range(editingEntry)))
              r == handleAddEntry(generatedTimetable, subjects, newEntry, stamp)
          IN /\ generatedTimetable' = r.timetable
             /\ lastCall' = Call("add", r.ret)
    /\ calls' = calls + 1
    /\ hasUnsavedChanges' = checkForUnsavedChanges(loadedTimetable, generatedTimetable')
    /\ UNCHANGED <<engineVars, saveFrame, subjects, timeSlots, isGenerating, validationErrors,
                   validationWarnings, pending, editingEntry>>

EditNext ==
    \/ Home_generateTimetable
    \/ Home_generateTimetableResume
    \/ handleEditEntry
    \/ closeEditModal
    \/ EditEntryModal_handleSave
    \/ UpdateEntry
    \/ DeleteEntry
    \/ AddEntry

EditSpec == EditInit /\ [][EditNext]_vars

\* the same page, named for the properties of the strings the entry handlers
\* return over every identity and every change they can be given
HandlerSpec == EditInit /\ [][EditNext]_vars

\* ------------------------------------------------------------------------
\* Claims about the engine and the validator
\* ------------------------------------------------------------------------
Results == Range(returned)

\* the sum of subject.frequency over all subjects of the configuration
RECURSIVE FrequencySum(_, _)
FrequencySum(subjectList, n) ==
    IF n = 0 THEN 0 ELSE subjectList[n].frequency + FrequencySum(subjectList, n - 1)

TotalRequired == FrequencySum(config.subjects, Len(config.subjects))

\* the sum of the frequencies of the subjects of teacher t
RECURSIVE TeacherSum(_, _, _)
TeacherSum(subjectList, n, t) ==
    IF n = 0 THEN 0
    ELSE (IF subjectList[n].teacher = t THEN subjectList[n].frequency ELSE 0)
           + TeacherSum(subjectList, n - 1, t)

DeclaredLoad(t) == TeacherSum(config.subjects, Len(config.subjects), t)

EntriesOf(r, t) == { i \in DOMAIN r.entries : r.entries[i].teacherId = t }

Minutes(time) == 60 * time[1] + time[2]

IntervalsOverlap(a, b) ==
    /\ Minutes(a.startTime) < Minutes(b.endTime)
    /\ Minutes(b.startTime) < Minutes(a.endTime)

ViolationKinds(r) ==
    { r.conflicts[c].description.bySlot[i].conflicts[v].kind :
        <<c, i, v>> \in { x \in (DOMAIN r.conflicts) \X (1 .. MaxSlots + 1) \X (1 .. 5) :
                            /\ x[2] \in DOMAIN r.conflicts[x[1]].description.bySlot
                            /\ x[3] \in DOMAIN
                                 r.conflicts[x[1]].description.bySlot[x[2]].conflicts } }

\* C1: in every result of generateTimetable no two distinct entries on the
\* same day have overlapping [start, end) intervals, whatever their subject,
\* teacher or room.
C1_NoDoubleBooking ==
    \A r \in Results : \A i, j \in DOMAIN r.entries :
        (i # j /\ r.entries[i].day = r.entries[j].day)
            => ~IntervalsOverlap(r.entries[i], r.entries[j])

\* a result with two entries on one day, and an attempt for which a slot was
\* rejected because it was occupied
C1_Witness ==
    \E r \in Results :
        /\ \E i, j \in DOMAIN r.entries : i # j /\ r.entries[i].day = r.entries[j].day
        /\ "Time slot already occupied" \in ViolationKinds(r)

\* C2 as stated: in every result no teacherId value, the empty one included,
\* is carried by more than 3 entries.
C2_AnyTeacherIdAtMostThree ==
    \A r \in Results : \A i \in DOMAIN r.entries :
        Cardinality(EntriesOf(r, r.entries[i].teacherId)) <= 3

\* C2 amended: in every result no non-empty teacherId is carried by more than
\* 3 entries, whatever frequencies the configuration declares.
C2_TeacherAtMostThree ==
    \A r \in Results : \A i \in DOMAIN r.entries :
        Truthy(r.entries[i].teacherId)
            => Cardinality(EntriesOf(r, r.entries[i].teacherId)) <= 3

\* a configuration that declares more than 3 occurrences for a teacher, who
\* ends with 3 entries, an occurrence having been refused at a slot whose
\* only violation is the weekly limit
C2_Witness ==
    \E r \in Results : \E t \in Range(TeacherNames) :
        /\ DeclaredLoad(t) > 3
        /\ Cardinality(EntriesOf(r, t)) = 3
        /\ \E c \in DOMAIN r.conflicts :
             \E i \in DOMAIN r.conflicts[c].description.bySlot :
                LET v == r.conflicts[c].description.bySlot[i].conflicts
                IN Len(v) = 1 /\ v[1].kind = "Teacher has reached maximum weekly limit"

C7_SuccessFlag ==
    \A r \in Results :
        r.success <=> (Len(r.conflicts) = 0
                         /\ r.completionRate.num = 100 * r.completionRate.den)

\* a result without conflicts that is not a success: nothing was attempted
C7_Witness ==
    \E r \in Results : Len(r.conflicts) = 0 /\ ~r.success

Placements(r) ==
    { <<r.entries[i].day, r.entries[i].startTime, r.entries[i].subjectId>> :
        i \in DOMAIN r.entries }

EntryIds(r) == { r.entries[i].id : i \in DOMAIN r.entries }

\* C8: two calls on the same configuration, on one instance or on two, yield
\* the same placements and as many conflicts, and the later result holds no
\* entry or conflict of the earlier call.
C8_Deterministic ==
    \A i, j \in DOMAIN returned :
        i < j =>
            /\ Placements(returned[i]) = Placements(returned[j])
            /\ Len(returned[i].conflicts) = Len(returned[j].conflicts)
            /\ Len(returned[i].entries) = Len(returned[j].entries)
            /\ EntryIds(returned[i]) \cap EntryIds(returned[j]) = {}
            /\ Len(returned[j].entries) + Len(returned[j].conflicts) = TotalRequired

\* a second call on an instance whose lists still hold the entries and the
\* conflicts of the first call
C8_Witness ==
    /\ Len(returned) >= 2
    /\ returned[1].entries # <<>>
    /\ returned[1].conflicts # <<>>
    /\ assignments = returned[2].entries
    /\ pc = "idle"

\* the teachers of the configuration: the teacher names its subjects carry
ConfigTeachers == { config.subjects[i].teacher : i \in DOMAIN config.subjects } \ {""}

OverCapErrors(v, t) ==
    { i \in DOMAIN v.errors : v.errors[i].tag = "CONSTRAINT_VIOLATION" /\ v.errors[i].who = t }

CapacityWarningsFor(v, t) ==
    { i \in DOMAIN v.warnings : v.warnings[i].tag = "CAPACITY_WARNING" /\ v.warnings[i].who = t }

\* C4: with at least one subject and one time slot, validateConfiguration
\* emits exactly one error per teacher whose frequencies sum to more than 3,
\* naming the teacher and the sum, and then isValid is false; no such error
\* for a teacher whose sum is at most 3; and one capacity warning for a
\* teacher whose sum is exactly 3.
C4_WorkloadErrors ==
    \A v \in Range(validation) :
        (Len(config.subjects) > 0 /\ Len(config.timeSlots) > 0) =>
            /\ \A t \in ConfigTeachers :
                 /\ DeclaredLoad(t) > 3 =>
                      /\ Cardinality(OverCapErrors(v, t)) = 1
                      /\ \A i \in OverCapErrors(v, t) : v.errors[i].n = DeclaredLoad(t)
                      /\ ~v.isValid
                 /\ DeclaredLoad(t) <= 3 => OverCapErrors(v, t) = {}
                 /\ DeclaredLoad(t) = 3 => Cardinality(CapacityWarningsFor(v, t)) = 1
                 /\ DeclaredLoad(t) # 3 => CapacityWarningsFor(v, t) = {}
            /\ \A i \in DOMAIN v.errors :
                 v.errors[i].tag = "CONSTRAINT_VIOLATION" => v.errors[i].who \in ConfigTeachers

\* a validation that reports a teacher whose two subjects sum to more than 3
C4_Witness ==
    \E v \in Range(validation) : \E t \in ConfigTeachers :
        /\ DeclaredLoad(t) > 3
        /\ OverCapErrors(v, t) # {}
        /\ ~v.isValid

\* C5: without subjects the validator returns isValid = false, the
\* no-subjects error alone and no warning; with subjects but without time
\* slots it returns isValid = false, the no-time-slots error alone and no
\* warning.
C5_EmptyConfiguration ==
    \A v \in Range(validation) :
        /\ Len(config.subjects) = 0 =>
             /\ ~v.isValid
             /\ Len(v.errors) = 1 /\ v.errors[1].kind = "no_subjects"
             /\ v.warnings = <<>>
        /\ (Len(config.subjects) > 0 /\ Len(config.timeSlots) = 0) =>
             /\ ~v.isValid
             /\ Len(v.errors) = 1 /\ v.errors[1].kind = "no_time_slots"
             /\ v.warnings = <<>>

\* a validation without time slots of subjects that would otherwise draw a
\* missing-teacher error
C5_Witness ==
    /\ validation # <<>>
    /\ Len(config.timeSlots) = 0
    /\ \E i \in DOMAIN config.subjects : config.subjects[i].teacher = ""

\* ------------------------------------------------------------------------
\* Claims about the page
\* ------------------------------------------------------------------------
PageConfig == [subjects |-> subjects, timeSlots |-> timeSlots]

\* a step in which the Generate button's handler ran: only it sets
\* isGenerating, shows errors or shows warnings
GenerateClicked ==
    \/ ~ isGenerating /\ isGenerating'
    \/ validationErrors = <<>> /\ validationErrors' # <<>>
    \/ validationWarnings' # validationWarnings /\ validationWarnings' # <<>>

\* a step in which the engine ran: the generator built at the click is
\* consumed
EngineRan == pending # <<>> /\ pending' = <<>>

\* C3: in the page's generate flow the engine runs if and only if
\* validateConfiguration returned no error (isValid is exactly that): a click
\* on a configuration with an error starts no run, shows the errors and
\* leaves the timetable held so far unchanged; a click on a configuration
\* without errors starts the run on that configuration whether or not there
\* are warnings; the engine runs on nothing but a configuration so accepted,
\* and a timetable comes only out of such a run.
C3_GenerateIffNoErrors ==
    [][ LET v == validateConfiguration(PageConfig)
        IN /\ GenerateClicked =>
                /\ v.isValid <=> (Len(v.errors) = 0)
                /\ (Len(v.errors) = 0) <=> (isGenerating' /\ pending' = << PageConfig >>)
                /\ Len(v.errors) # 0 =>
                      /\ generatedTimetable' = generatedTimetable
                      /\ pending' = pending
                      /\ isGenerating' = isGenerating
                      /\ validationErrors' = v.errors
           /\ EngineRan =>
                /\ Len(validateConfiguration(pending[1]).errors) = 0
                /\ generatedTimetable' # Null
                /\ generatedTimetable'[1].entries
                      = generateTimetable(pending[1], <<>>, <<>>, 1).assignments
           /\ (generatedTimetable' # generatedTimetable /\ generatedTimetable' # Null)
                => EngineRan
      ]_vars

\* a click on a configuration with an error has left the timetable of an
\* earlier run in place
C3_Witness ==
    /\ validationErrors # <<>>
    /\ generatedTimetable # Null
    /\ Len(generatedTimetable[1].entries) > 0
    /\ ~ isGenerating

\* the identities a handler can be called with: those of the entries shown
\* and the one the edit modal holds
HeldIds == IdsOf(EntriesIn(generatedTimetable)) \cup Range(editingEntry)

AllUpdates == ModalSaves(subjects) \cup DirectUpdates

Tags(ret) == { ret[k].tag : k \in DOMAIN ret }

\* the position an update asks for: its own day and start time where it
\* gives them, the entry's otherwise
EffectivePosition(entry, updates) ==
    << IF "day" \in updates.keys /\ updates.day \notin {"", Undefined}
       THEN updates.day ELSE entry.day,
       IF "startTime" \in updates.keys THEN updates.startTime ELSE entry.startTime >>

PositionOf(entry) == << entry.day, entry.startTime >>

\* C9: an update of an existing entry whose effective (day, startTime)
\* differs from the entry's current one and equals that of a different entry
\* returns a list with a TIME_CONFLICT message and leaves the entry list
\* unchanged.
C9_MoveOntoOccupied ==
    \A k \in DOMAIN EntriesIn(generatedTimetable), updates \in AllUpdates :
        LET entries == EntriesIn(generatedTimetable)
            entry == entries[k]
            r == handleUpdateEntry(generatedTimetable, subjects, entry.id, updates)
        IN (/\ EffectivePosition(entry, updates) # PositionOf(entry)
            /\ \E j \in DOMAIN entries :
                  /\ entries[j].id # entry.id
                  /\ PositionOf(entries[j]) = EffectivePosition(entry, updates))
           => /\ "TIME_CONFLICT" \in Tags(r.ret)
              /\ EntriesIn(r.timetable) = entries

\* an update has come back with a TIME_CONFLICT message
C9_Witness ==
    /\ lastCall.op = "update"
    /\ "TIME_CONFLICT" \in Tags(lastCall.ret)
    /\ Len(EntriesIn(generatedTimetable)) > 1

\* the entry an accepted update puts in the place of entry
Replaced(entry, updates) ==
    [f \in DOMAIN entry |-> IF f \in updates.keys THEN updates[f] ELSE entry[f]]

\* C10: an add or update that returns a non-empty list leaves the timetable
\* unchanged; one that returns an empty list applies exactly one change to
\* the entry list, the targeted entry replaced in place (update) or one
\* entry appended (add), every other entry unchanged; delete removes exactly
\* the entries with the given id and nothing else.
C10_FrameEffect ==
    LET entries == EntriesIn(generatedTimetable)
    IN /\ \A entryId \in HeldIds, updates \in AllUpdates :
             LET r == handleUpdateEntry(generatedTimetable, subjects, entryId, updates)
             IN /\ Len(r.ret) > 0 => r.timetable = generatedTimetable
                /\ Len(r.ret) = 0 =>
                      \E k \in DOMAIN entries :
                          /\ entries[k].id = entryId
                          /\ EntriesIn(r.timetable)
                                = [entries EXCEPT ![k] = Replaced(entries[k], updates)]
       /\ \A newEntry \in NewEntries(subjects, timeSlots) :
             LET r == handleAddEntry(generatedTimetable, subjects, newEntry, 1 + IdBlock)
                 after == EntriesIn(r.timetable)
             IN /\ Len(r.ret) > 0 => r.timetable = generatedTimetable
                /\ Len(r.ret) = 0 =>
                      /\ Len(after) = Len(entries) + 1
                      /\ SubSeq(after, 1, Len(entries)) = entries
                      /\ \A f \in DOMAIN newEntry : after[Len(after)][f] = newEntry[f]
                      /\ r.timetable[1].conflicts = generatedTimetable[1].conflicts
                      /\ r.timetable[1].success = generatedTimetable[1].success
                      /\ r.timetable[1].completionRate = generatedTimetable[1].completionRate
       /\ \A entryId \in HeldIds :
             LET after == handleDeleteEntry(generatedTimetable, entryId)
             IN /\ EntriesIn(after) = SelectSeq(entries, LAMBDA e : e.id # entryId)
                /\ generatedTimetable # Null =>
                      /\ after[1].conflicts = generatedTimetable[1].conflicts
                      /\ after[1].success = generatedTimetable[1].success
                      /\ after[1].completionRate = generatedTimetable[1].completionRate

\* ------------------------------------------------------------------------
\* Claims about the interactive checks of the page
\* ------------------------------------------------------------------------
\* C11: starting from a generated timetable, after any sequence of accepted
\* interactive add, update and delete operations, no two entries on the same
\* day have overlapping [start, end) intervals.
C11_NoOverlapAfterEdits ==
    LET entries == EntriesIn(generatedTimetable)
    IN \A i, j \in DOMAIN entries :
          (i # j /\ entries[i].day = entries[j].day)
              => ~IntervalsOverlap(entries[i], entries[j])

\* the number of entries that carry teacher t
TeacherCount(entries, t) ==
    Cardinality({ k \in DOMAIN entries : entries[k].teacherId = t })

\* C12: starting from a generated timetable, after any sequence of add,
\* update and delete operations no teacher is carried by more than 3
\* entries; an add for a teacher who has 3 entries, and an update that
\* changes the teacher to one whom 3 other entries carry, comes back with a
\* WORKLOAD_VIOLATION message and leaves the timetable unchanged.
C12_TeacherCapAfterEdits ==
    LET entries == EntriesIn(generatedTimetable)
    IN /\ \A k \in DOMAIN entries :
             Truthy(entries[k].teacherId)
                 => TeacherCount(entries, entries[k].teacherId) <= 3
       /\ \A newEntry \in NewEntries(subjects, timeSlots) :
             (Truthy(newEntry.teacherId) /\ TeacherCount(entries, newEntry.teacherId) >= 3)
                 => LET r == handleAddEntry(generatedTimetable, subjects, newEntry,
                                            1 + IdBlock)
                    IN /\ "WORKLOAD_VIOLATION" \in Tags(r.ret)
                       /\ r.timetable = generatedTimetable
       /\ \A k \in DOMAIN entries, updates \in AllUpdates :
             (/\ "teacherId" \in updates.keys
              /\ Truthy(updates.teacherId)
              /\ updates.teacherId # entries[k].teacherId
              /\ TeacherCount(entries, updates.teacherId) >= 3)
                 => LET r == handleUpdateEntry(generatedTimetable, subjects,
                                               entries[k].id, updates)
                    IN /\ "WORKLOAD_VIOLATION" \in Tags(r.ret)
                       /\ r.timetable = generatedTimetable

\* an update that would have given a teacher a fourth entry has come back
\* with WORKLOAD_VIOLATION: the list holds four entries, three of one teacher
C12_Witness ==
    /\ lastCall.op = "update"
    /\ "WORKLOAD_VIOLATION" \in Tags(lastCall.ret)
    /\ Len(EntriesIn(generatedTimetable)) = 4
    /\ \E t \in Range(TeacherNames) : TeacherCount(EntriesIn(generatedTimetable), t) = 3

\* the seven category tags
CategoryTags ==
    { "TIME_CONFLICT", "TEACHER_CONFLICT", "WORKLOAD_VIOLATION", "ROOM_CONFLICT",
      "INVALID_SUBJECT", "MISSING_SUBJECT", "MISSING_TEACHER" }

C13_Ids == HeldIds \cup { ManualId(1 + 2 * IdBlock) }

EffectiveTeacher(entry, updates) ==
    IF "teacherId" \in updates.keys /\ updates.teacherId \notin {"", Undefined}
    THEN updates.teacherId ELSE entry.teacherId

\* the other entries that carry teacher t
OthersWith(entries, entry, t) ==
    { j \in DOMAIN entries : entries[j].id # entry.id /\ entries[j].teacherId = t }

\* an update that names a teacher other than the entry's
ChangesTeacher(entry, updates) ==
    /\ "teacherId" \in updates.keys
    /\ updates.teacherId \notin {"", Undefined}
    /\ updates.teacherId # entry.teacherId

\* C14 as stated: for every update, TEACHER_CONFLICT is reported when
\* another entry with the effective teacher sits at the effective (day,
\* startTime), and WORKLOAD_VIOLATION when at least 3 other entries carry the
\* effective teacher, also when the update changes only day or startTime.
C14_EffectiveTeacherChecks ==
    LET entries == EntriesIn(generatedTimetable)
    IN \A k \in DOMAIN entries, updates \in AllUpdates :
          LET entry == entries[k]
              t == EffectiveTeacher(entry, updates)
              ret == checkUpdateConflicts(generatedTimetable, subjects, entry.id, updates)
          IN Truthy(t) =>
                /\ (\E j \in OthersWith(entries, entry, t) :
                        PositionOf(entries[j]) = EffectivePosition(entry, updates))
                      => "TEACHER_CONFLICT" \in Tags(ret)
                /\ Cardinality(OthersWith(entries, entry, t)) >= 3
                      => "WORKLOAD_VIOLATION" \in Tags(ret)

\* C14 amended: update validation runs the teacher checks exactly when the
\* update gives a non-empty teacherId other than the entry's current one,
\* and on that teacherId: TEACHER_CONFLICT is reported exactly when another
\* entry with it sits at the effective (day, startTime), WORKLOAD_VIOLATION
\* exactly when at least 3 other entries carry it; an update that does not
\* change the teacher reports neither.
C14_ChangedTeacherChecks ==
    LET entries == EntriesIn(generatedTimetable)
    IN \A k \in DOMAIN entries, updates \in AllUpdates :
          LET entry == entries[k]
              others == OthersWith(entries, entry, updates.teacherId)
              ret == checkUpdateConflicts(generatedTimetable, subjects, entry.id, updates)
          IN /\ "TEACHER_CONFLICT" \in Tags(ret)
                  <=> /\ ChangesTeacher(entry, updates)
                      /\ \E j \in others :
                            PositionOf(entries[j]) = EffectivePosition(entry, updates)
             /\ "WORKLOAD_VIOLATION" \in Tags(ret)
                  <=> /\ ChangesTeacher(entry, updates)
                      /\ Cardinality(others) >= 3
             /\ \A m \in DOMAIN ret :
                   ret[m].tag \in {"TEACHER_CONFLICT", "WORKLOAD_VIOLATION"}
                       => ret[m].who = updates.teacherId

\* an update that moves an entry to another day and changes its teacher has
\* come back with TEACHER_CONFLICT, and a move of an entry onto an entry of
\* its own teacher would come back without it
C14_Witness ==
    LET entries == EntriesIn(generatedTimetable)
    IN /\ lastCall.op = "update"
       /\ "TEACHER_CONFLICT" \in Tags(lastCall.ret)
       /\ \E k \in DOMAIN entries, updates \in DirectUpdates :
             /\ updates.keys = {"day"}
             /\ \E j \in OthersWith(entries, entries[k], entries[k].teacherId) :
                   PositionOf(entries[j]) = EffectivePosition(entries[k], updates)
             /\ "TEACHER_CONFLICT" \notin
                   Tags(checkUpdateConflicts(generatedTimetable, subjects,
                                             entries[k].id, updates))

\* ------------------------------------------------------------------------
\* Claims about the engine's placements and processing order
\* ------------------------------------------------------------------------
\* a subject fits a slot: the slot is long enough and, if the subject names
\* preferred slots, is one of them
FitsSlot(subject, slot) ==
    /\ slot.duration >= subject.duration
    /\ subject.preferredTimeSlots # <<>> => slot.id \in Range(subject.preferredTimeSlots)

SingleSlotConfig ==
    /\ Len(config.timeSlots) = 1
    /\ TotalRequired >= 1
    /\ \A i \in DOMAIN config.subjects : FitsSlot(config.subjects[i], config.timeSlots[1])

EntriesOfSubject(r, s) == { i \in DOMAIN r.entries : r.entries[i].subjectId = s.id }

\* the conflicts of a result that report an occurrence of subject s
ConflictsOfSubject(r, s) ==
    { c \in DOMAIN r.conflicts : r.conflicts[c].description.subject = s.name }

\* C16: in every result of generateTimetable entries.length +
\* conflicts.length equals the sum of subject.frequency, each subject has at
\* most frequency entries, and every conflict describes one unplaced
\* occurrence (the entries and the conflicts of a subject add up to its
\* frequency) with type 'scheduling_conflict' and an empty affectedEntries
\* list.
C16_OccurrencesAccounted ==
    \A r \in Results :
        /\ Len(r.entries) + Len(r.conflicts) = TotalRequired
        /\ \A i \in DOMAIN config.subjects :
              LET s == config.subjects[i]
              IN /\ Cardinality(EntriesOfSubject(r, s)) <= s.frequency
                 /\ Cardinality(EntriesOfSubject(r, s)) + Cardinality(ConflictsOfSubject(r, s))
                      = s.frequency
        /\ \A c \in DOMAIN r.conflicts :
              /\ r.conflicts[c].type = "scheduling_conflict"
              /\ r.conflicts[c].affectedEntries = <<>>
              /\ \E i \in DOMAIN config.subjects :
                    config.subjects[i].name = r.conflicts[c].description.subject

\* a result in which one subject was placed once and dropped once while
\* another was placed in full
C16_Witness ==
    \E r \in Results : \E i, j \in DOMAIN config.subjects :
        /\ i # j
        /\ config.subjects[i].frequency = 2
        /\ Cardinality(EntriesOfSubject(r, config.subjects[i])) = 1
        /\ Cardinality(ConflictsOfSubject(r, config.subjects[i])) = 1
        /\ Cardinality(EntriesOfSubject(r, config.subjects[j])) = config.subjects[j].frequency

\* the days on which a subject's teacher has an entry among entries; a
\* subject without a teacher has no such day
TeacherDays(entries, subject) ==
    IF subject.teacher \in {"", Undefined} THEN {}
    ELSE { entries[i].day : i \in { k \in DOMAIN entries :
                                       entries[k].teacherId = subject.teacher } }

\* the candidate slots of a subject in day-distribution order with respect
\* to entries: those on days its teacher does not use, in configuration
\* order, then those on days the teacher uses, in configuration order
CandidateOrder(entries, subject) ==
    LET candidates == SelectSeq(config.timeSlots, LAMBDA slot : FitsSlot(subject, slot))
    IN SelectSeq(candidates, LAMBDA slot : slot.day \notin TeacherDays(entries, subject))
         \o SelectSeq(candidates, LAMBDA slot : slot.day \in TeacherDays(entries, subject))

\* the positions of CandidateOrder whose slot has no violation
FreeCandidates(entries, subject) ==
    { i \in DOMAIN CandidateOrder(entries, subject) :
        detectConflicts(config, entries, subject, CandidateOrder(entries, subject)[i]) = <<>> }

\* a step that attempts one occurrence
OccurrenceAttempted == pc = "loop" /\ attempt' = attempt + 1

\* C17: each occurrence is placed first-fit in day-distribution order: the
\* committed slot is the first slot of the order [candidates on days the
\* subject's teacher does not use; candidates on days the teacher uses],
\* evaluated against the entries committed so far, that has no violation,
\* and no entry is committed when there is none; hence an entry is placed on
\* a day its teacher already uses only if every candidate slot on an unused
\* day was in conflict at that moment.
C17_FirstFit ==
    [][ OccurrenceAttempted =>
          LET subject == attempts(sortedSubjects)[attempt]
              order == CandidateOrder(assignments, subject)
              free == FreeCandidates(assignments, subject)
          IN IF free = {}
             THEN /\ assignments' = assignments
                  /\ Len(conflicts') = Len(conflicts) + 1
             ELSE LET first == CHOOSE i \in free : \A j \in free : i <= j
                      entry == assignments'[Len(assignments')]
                  IN /\ Len(assignments') = Len(assignments) + 1
                     /\ SubSeq(assignments', 1, Len(assignments)) = assignments
                     /\ conflicts' = conflicts
                     /\ entry.subjectId = subject.id
                     /\ entry.timeSlotId = order[first].id
                     /\ entry.day = order[first].day
                     /\ entry.startTime = order[first].startTime
                     /\ entry.day \in TeacherDays(assignments, subject) =>
                           \A i \in DOMAIN order :
                               order[i].day \notin TeacherDays(assignments, subject)
                                   => i \notin free
      ]_vars

\* the entry committed last went to a day its teacher already used, while
\* the subject had candidate slots on a day the teacher did not use, every
\* one of them in conflict
C17_Witness ==
    /\ Len(assignments) >= 2
    /\ LET n == Len(assignments)
           before == SubSeq(assignments, 1, n - 1)
           subject == CHOOSE s \in Range(config.subjects) : s.id = assignments[n].subjectId
           order == CandidateOrder(before, subject)
       IN /\ assignments[n].day \in TeacherDays(before, subject)
          /\ \E i \in DOMAIN order :
                /\ order[i].day \notin TeacherDays(before, subject)
                /\ detectConflicts(config, before, subject, order[i]) # <<>>

\* the position in list of the subject whose occurrences include the n-th
\* attempt, when the occurrences of each subject are attempted in a row
BlockOf(list, n) ==
    CHOOSE i \in DOMAIN list :
        FrequencySum(list, i - 1) < n /\ n <= FrequencySum(list, i)

\* the subject a step has attempted, read from the entry or the conflict it
\* has added
AttemptedIs(subject) ==
    IF Len(assignments') > Len(assignments)
    THEN assignments'[Len(assignments')].subjectId = subject.id
    ELSE /\ Len(conflicts') > Len(conflicts)
         /\ conflicts'[Len(conflicts')].description.subject = subject.name

\* C18: generateTimetable fixes the processing order of the subjects once,
\* before the first occurrence is attempted, and never changes it during the
\* run; in that order a subject whose teacher has a strictly lower declared
\* total weekly load comes before a subject whose teacher has a higher one,
\* and all occurrences of one subject are attempted consecutively.
C18_OrderFixedByLoad ==
    [][ /\ (pc = "idle" /\ pc' = "loop") =>
              /\ attempt' = 1
              /\ totalAssignments' = 0
              /\ Len(sortedSubjects') = Len(config.subjects)
              /\ \A k \in DOMAIN config.subjects :
                    Cardinality({ i \in DOMAIN sortedSubjects' :
                                    sortedSubjects'[i] = config.subjects[k] }) = 1
              /\ \A i, j \in DOMAIN sortedSubjects' :
                    DeclaredLoad(sortedSubjects'[i].teacher)
                        < DeclaredLoad(sortedSubjects'[j].teacher) => i < j
        /\ pc = "loop" => sortedSubjects' = sortedSubjects
        /\ OccurrenceAttempted =>
              /\ attempt <= FrequencySum(sortedSubjects, Len(sortedSubjects))
              /\ AttemptedIs(sortedSubjects[BlockOf(sortedSubjects, attempt)])
              /\ totalAssignments' = attempt
      ]_vars

\* a run in which the second subject of the configuration, whose teacher
\* has the lower load, is processed first and the first subject is being
\* attempted
C18_Witness ==
    /\ pc = "loop"
    /\ Len(config.subjects) = 2
    /\ DeclaredLoad(config.subjects[2].teacher) < DeclaredLoad(config.subjects[1].teacher)
    /\ sortedSubjects = << config.subjects[2], config.subjects[1] >>
    /\ attempt > config.subjects[2].frequency + 1

\* the number of candidate slots of a subject: the slots of the
\* configuration it fits
CandidateCount(subject) ==
    Len(SelectSeq(config.timeSlots, LAMBDA slot : FitsSlot(subject, slot)))

\* C19: between two subjects whose teachers have the same declared total
\* weekly load, the subject with fewer compatible candidate slots is
\* processed before the subject with more.
C19_FewerSlotsFirst ==
    pc = "loop" =>
        \A i, j \in DOMAIN sortedSubjects :
            (/\ DeclaredLoad(sortedSubjects[i].teacher) = DeclaredLoad(sortedSubjects[j].teacher)
             /\ CandidateCount(sortedSubjects[i]) < CandidateCount(sortedSubjects[j]))
                => i < j

\* C20: every entry generateTimetable returns refers to a subject and a
\* time slot of the configuration such that its day, startTime and endTime
\* are those of the slot named by timeSlotId, its teacherId and roomId are
\* those of the subject, slot.duration >= subject.duration, and, when the
\* subject has a non-empty preferred-slot list, the slot's id is in it.
C20_EntriesFromConfiguration ==
    \A r \in Results : \A n \in DOMAIN r.entries :
        LET entry == r.entries[n]
        IN \E i \in DOMAIN config.subjects, k \in DOMAIN config.timeSlots :
              LET subject == config.subjects[i]
                  slot == config.timeSlots[k]
              IN /\ entry.subjectId = subject.id
                 /\ entry.timeSlotId = slot.id
                 /\ entry.day = slot.day
                 /\ entry.startTime = slot.startTime
                 /\ entry.endTime = slot.endTime
                 /\ entry.teacherId = subject.teacher
                 /\ entry.roomId = subject.room
                 /\ slot.duration >= subject.duration
                 /\ Len(subject.preferredTimeSlots) > 0
                       => \E p \in DOMAIN subject.preferredTimeSlots :
                             subject.preferredTimeSlots[p] = slot.id

\* a result with an entry of a subject that names preferred slots, placed on
\* one of them although an earlier slot of the configuration, not in the
\* list, is long enough and was free
C20_Witness ==
    \E r \in Results : \E n \in DOMAIN r.entries :
        \E i \in DOMAIN config.subjects, k \in DOMAIN config.timeSlots :
            /\ r.entries[n].subjectId = config.subjects[i].id
            /\ Len(config.subjects[i].preferredTimeSlots) > 0
            /\ config.timeSlots[k].id \notin Range(config.subjects[i].preferredTimeSlots)
            /\ config.timeSlots[k].duration >= config.subjects[i].duration
            /\ \A m \in DOMAIN r.entries :
                  r.entries[m].day = config.timeSlots[k].day
                      => ~IntervalsOverlap(r.entries[m], config.timeSlots[k])

\* ------------------------------------------------------------------------
\* Claims about one run, the validator's cap and the default slots
\* ------------------------------------------------------------------------
IsPrefix(s, t) == Len(s) <= Len(t) /\ SubSeq(t, 1, Len(s)) = s

C22_TeacherAlwaysSet ==
    /\ \A k \in DOMAIN EntriesIn(generatedTimetable) :
          EntriesIn(generatedTimetable)[k].teacherId \notin {"", Undefined}
    /\ generatedTimetable # Null =>
          \A newEntry \in NewEntries(subjects, timeSlots) :
              newEntry.teacherId \in {"", Undefined} =>
                  LET r == handleAddEntry(generatedTimetable, subjects, newEntry, 1 + IdBlock)
                  IN /\ "MISSING_TEACHER" \in Tags(r.ret)
                     /\ r.timetable = generatedTimetable

WeeklyLimit == "Teacher has reached maximum weekly limit"

\* the violation kinds detectConflicts gives for the subject on the slots of
\* the configuration, against the entries committed so far
KindsNow(subject) ==
    UNION { { detectConflicts(config, assignments, subject, config.timeSlots[k])[v].kind :
                v \in DOMAIN detectConflicts(config, assignments, subject,
                                             config.timeSlots[k]) } :
            k \in DOMAIN config.timeSlots }

CommittedOf(teacher) == SelectSeq(assignments, LAMBDA a : a.teacherId = teacher)

\* C23: for a configuration validateConfiguration accepts (isValid), at
\* every attempt of generateTimetable the teacher of the attempted subject
\* has at most 2 committed entries, so the weekly-limit violation is in no
\* slot's violation list and in no conflict report, of the running call or of
\* a returned result.
C23_CapNeverBinds ==
    validateConfiguration(config).isValid =>
        /\ (pc = "loop" /\ attempt <= Len(attempts(sortedSubjects))) =>
              LET subject == attempts(sortedSubjects)[attempt]
              IN /\ Len(CommittedOf(subject.teacher)) <= MAX_TEACHER_SLOTS_PER_WEEK - 1
                 /\ WeeklyLimit \notin KindsNow(subject)
        /\ WeeklyLimit \notin ViolationKinds([conflicts |-> conflicts])
        /\ \A r \in Results : WeeklyLimit \notin ViolationKinds(r)

\* an accepted configuration at the attempt for the third occurrence of a
\* teacher who has two entries committed
C23_Witness ==
    /\ validateConfiguration(config).isValid
    /\ pc = "loop"
    /\ attempt <= Len(attempts(sortedSubjects))
    /\ Len(CommittedOf(attempts(sortedSubjects)[attempt].teacher))
          = MAX_TEACHER_SLOTS_PER_WEEK - 1

\* the violation kinds detectConflicts gives for subject on slot
KindsOn(subject, slot) ==
    { detectConflicts(config, assignments, subject, slot)[v].kind :
        v \in DOMAIN detectConflicts(config, assignments, subject, slot) }

Occupied(slot) ==
    \E n \in DOMAIN assignments :
        assignments[n].day = slot.day /\ IntervalsOverlap(assignments[n], slot)

\* C24: during generation, whenever detectConflicts reports the teacher or
\* the room as double-booked on a slot it also reports the slot as occupied;
\* a slot is usable for a subject exactly when it is long enough, overlaps
\* no committed entry of its day and the subject's teacher has fewer than 3
\* entries; and no two committed entries of a day overlap.
C24_OccupancyDecides ==
    /\ \A i \in DOMAIN config.subjects, k \in DOMAIN config.timeSlots :
          LET subject == config.subjects[i]
              slot == config.timeSlots[k]
              kinds == KindsOn(subject, slot)
          IN /\ "Teacher is already assigned" \in kinds
                    => "Time slot already occupied" \in kinds
             /\ "Room is already occupied" \in kinds
                    => "Time slot already occupied" \in kinds
             /\ kinds = {} <=>
                    /\ slot.duration >= subject.duration
                    /\ ~Occupied(slot)
                    /\ subject.teacher = ""
                          \/ Len(CommittedOf(subject.teacher)) < MAX_TEACHER_SLOTS_PER_WEEK
    /\ \A m, n \in DOMAIN assignments :
          (m # n /\ assignments[m].day = assignments[n].day)
              => ~IntervalsOverlap(assignments[m], assignments[n])

\* a run in which, against the entries committed so far, a slot is reported
\* with the teacher double-booked and a slot with the room double-booked
C24_Witness ==
    /\ pc = "loop"
    /\ \E i \in DOMAIN config.subjects, k \in DOMAIN config.timeSlots :
          "Teacher is already assigned" \in KindsOn(config.subjects[i], config.timeSlots[k])
    /\ \E i \in DOMAIN config.subjects, k \in DOMAIN config.timeSlots :
          "Room is already occupied" \in KindsOn(config.subjects[i], config.timeSlots[k])

\* ------------------------------------------------------------------------
\* The engine on the default periods
\* ------------------------------------------------------------------------
\* the slots these configurations are drawn from: the default periods, a
\* longer period on a third day, and a custom slot that overlaps the first
\* two periods
DefaultSlotPool ==
    generateDefaultTimeSlots
      \o << MkSlot("wed-2", "Wednesday", <<9, 20>>, <<10, 20>>),
            MkSlot("custom-a", "Monday", <<9, 0>>, <<10, 0>>) >>

DefaultSlotLists ==
    { SubSeq(DefaultSlotPool, 1, n) : n \in 0 .. Min(MaxSlots, Len(DefaultSlotPool)) }

\* subjects without a preferred-slot list: a period-long one with a room and
\* a longer one
PlainProfiles ==
    { [duration |-> 50, room |-> "R1",      preferredTimeSlots |-> <<>>],
      [duration |-> 60, room |-> Undefined, preferredTimeSlots |-> <<>>] }

PlainSubjectsAt(i) ==
    { MkSubject(i, t, f, p) : t \in TeachersAt(i), f \in 1 .. MaxFrequency, p \in PlainProfiles }

RECURSIVE PlainSubjectListsOf(_)
PlainSubjectListsOf(n) ==
    IF n = 0 THEN { <<>> }
    ELSE { Append(s, x) : s \in PlainSubjectListsOf(n - 1), x \in PlainSubjectsAt(n) }

PlainSubjectLists ==
    UNION { PlainSubjectListsOf(n) : n \in 0 .. Min(MaxSubjects, Len(SubjectIds)) }

DefaultConfigs ==
    { [subjects |-> s, timeSlots |-> t] : s \in PlainSubjectLists, t \in DefaultSlotLists }

DefaultInit ==
    /\ config \in DefaultConfigs
    /\ assignments = <<>>
    /\ conflicts = <<>>
    /\ pc = "idle"
    /\ sortedSubjects = <<>>
    /\ attempt = 1
    /\ totalAssignments = 0
    /\ successfulAssignments = 0
    /\ clock = 1
    /\ returned = <<>>
    /\ validation = <<>>
    /\ PageIdle

DefaultSpec == DefaultInit /\ [][Next]_vars

\* no two slots of the list overlap
PairwiseDisjoint(slotList) ==
    \A m, n \in DOMAIN slotList :
        (m # n /\ slotList[m].day = slotList[n].day)
            => ~IntervalsOverlap(slotList[m], slotList[n])

\* every slot of the configuration is long enough for every subject
EverySlotFits ==
    \A i \in DOMAIN config.subjects, k \in DOMAIN config.timeSlots :
        config.timeSlots[k].duration >= config.subjects[i].duration

NoPreferredLists ==
    \A i \in DOMAIN config.subjects : config.subjects[i].preferredTimeSlots = <<>>

\* C25: for a configuration that passes validateConfiguration, has no
\* preferred-slot lists and whose time slots are pairwise non-overlapping and
\* each long enough for every subject, generateTimetable places every
\* occurrence (no conflicts, completionRate 100, success) whenever the sum of
\* the frequencies is at most the number of time slots; the default periods
\* are such slots.
C25_EverythingPlaced ==
    /\ PairwiseDisjoint(generateDefaultTimeSlots)
    /\ (/\ validateConfiguration(config).isValid
        /\ NoPreferredLists
        /\ PairwiseDisjoint(config.timeSlots)
        /\ EverySlotFits
        /\ TotalRequired <= Len(config.timeSlots))
          => \A r \in Results :
                /\ r.conflicts = <<>>
                /\ Len(r.entries) = TotalRequired
                /\ r.completionRate = Hundred
                /\ r.success

\* a result for an accepted configuration of two subjects on back-to-back
\* default periods, with as many occurrences as there are slots
C25_Witness ==
    /\ validateConfiguration(config).isValid
    /\ PairwiseDisjoint(config.timeSlots)
    /\ EverySlotFits
    /\ Len(config.subjects) >= 2
    /\ TotalRequired = Len(config.timeSlots)
    /\ TotalRequired >= 3
    /\ \E r \in Results : r.success /\ Len(r.entries) = TotalRequired

\* ------------------------------------------------------------------------
\* Claims about the page: grid cells, stored result, generate flow
\* ------------------------------------------------------------------------
\* C26: starting from a timetable generated over time slots that end after
\* they start, after any sequence of adds, updates and deletes no two entries
\* share a (day, startTime): a grid cell holds at most one entry.
C26_OneEntryPerCell ==
    /\ \A k \in DOMAIN timeSlots :
          timeToMinutes(timeSlots[k].endTime) > timeToMinutes(timeSlots[k].startTime)
    /\ \A m, n \in DOMAIN EntriesIn(generatedTimetable) :
          m # n => PositionOf(EntriesIn(generatedTimetable)[m])
                      # PositionOf(EntriesIn(generatedTimetable)[n])

\* an update has been accepted that moved an entry to a day without slots,
\* next to the entries that stayed
C26_Witness ==
    /\ lastCall = Call("update", <<>>)
    /\ Len(EntriesIn(generatedTimetable)) >= 4
    /\ \E k \in DOMAIN EntriesIn(generatedTimetable) :
          /\ EntriesIn(generatedTimetable)[k].day = "Wednesday"
          /\ \A n \in DOMAIN timeSlots : timeSlots[n].day # "Wednesday"

\* a configuration whose generation leaves a conflict: three occurrences,
\* two periods, and a custom slot too short for any subject
FrameSubjects ==
    << subjectOfForm(SubjectForm(1, "Ann", 50, 2, "")),
       subjectOfForm(SubjectForm(3, "Bob", 50, 1, "")) >>

FrameTimeSlots ==
    SubSeq(generateDefaultTimeSlots, 1, 2)
      \o << MkSlot("custom-s", "Tuesday", <<8, 30>>, <<9, 0>>) >>

FrameInit ==
    /\ EngineIdle
    /\ subjects = FrameSubjects
    /\ timeSlots = FrameTimeSlots
    /\ generatedTimetable = Null
    /\ isGenerating = FALSE
    /\ validationErrors = <<>>
    /\ validationWarnings = <<>>
    /\ pending = <<>>
    /\ editingEntry = <<>>
    /\ calls = 0
    /\ lastCall = NoCall
    /\ SaveIdle

FrameSpec == FrameInit /\ [][EditNext]_vars

\* C27: add, update and delete never change the stored success flag or
\* completionRate of the timetable; an accepted update sets the conflicts
\* list to empty, a rejected one changes nothing, and add and delete leave
\* the conflicts list unchanged.
C27_StoredResultKept ==
    [][ (calls' = calls + 1 /\ generatedTimetable # Null) =>
          /\ generatedTimetable' # Null
          /\ generatedTimetable'[1].success = generatedTimetable[1].success
          /\ generatedTimetable'[1].completionRate = generatedTimetable[1].completionRate
          /\ lastCall'.op \in {"add", "delete"} =>
                generatedTimetable'[1].conflicts = generatedTimetable[1].conflicts
          /\ lastCall'.op = "update" =>
                IF lastCall'.ret = <<>>
                THEN generatedTimetable'[1].conflicts = <<>>
                ELSE generatedTimetable' = generatedTimetable
      ]_vars

\* after an accepted update the timetable of a generation that left a
\* conflict holds no conflict and is still stored as unsuccessful, with the
\* completion rate of the generation
C27_Witness ==
    /\ lastCall = Call("update", <<>>)
    /\ generatedTimetable # Null
    /\ generatedTimetable[1].conflicts = <<>>
    /\ ~generatedTimetable[1].success
    /\ generatedTimetable[1].completionRate # Hundred

\* C28: Generate is enabled whenever the subject list is non-empty, no
\* generation is in progress and the current configuration would pass
\* validation; in particular after an attempt that validation errors
\* blocked, once the configuration has been corrected, without Clear All.
C28_GenerateAvailable ==
    (/\ Len(subjects) > 0
     /\ ~isGenerating
     /\ validateConfiguration([subjects |-> subjects, timeSlots |-> timeSlots]).isValid)
        => generateEnabled

\* C29: a generation result is installed as the current timetable only if
\* nothing changed the subjects, the time slots or the timetable between the
\* click on Generate and the end of the delay: whenever a timetable is
\* installed it is the one generateTimetable computes from the subjects and
\* time slots the page holds at that moment, and it is never installed over
\* a page that was cleared in the meantime.
C29_InstallOnlyCurrent ==
    [][ (generatedTimetable' # generatedTimetable /\ generatedTimetable' # Null) =>
          /\ Len(subjects') > 0
          /\ generatedTimetable' =
                << resultOf(generateTimetable(
                      [subjects |-> subjects', timeSlots |-> timeSlots'],
                      <<>>, <<>>, runStamp(Range(editingEntry)))) >>
      ]_vars

\* ------------------------------------------------------------------------
\* The page with a saved timetable loaded: edits, Save Changes, New
\* Timetable and the unsaved-changes dialog
\* ------------------------------------------------------------------------
\* the saved timetable the list offers: a configuration and the entries
\* that were generated from it
SavedDocument ==
    LET savedConfig == [subjects |-> FrameSubjects, timeSlots |-> generateDefaultTimeSlots]
    IN [id |-> "saved-1",
        subjects |-> savedConfig.subjects,
        timeSlots |-> savedConfig.timeSlots,
        generatedTimetable |->
            [entries |-> resultOf(generateTimetable(savedConfig, <<>>, <<>>, 1)).entries]]

SaveInit ==
    /\ EngineIdle
    /\ subjects = <<>>
    /\ timeSlots = generateDefaultTimeSlots
    /\ generatedTimetable = Null
    /\ isGenerating = FALSE
    /\ validationErrors = <<>>
    /\ validationWarnings = <<>>
    /\ pending = <<>>
    /\ editingEntry = <<>>
    /\ calls = 0
    /\ lastCall = NoCall
    /\ SaveIdle

\* handleLoadTimetable; with unsaved changes it asks for confirmation first
handleLoadTimetable ==
    /\ ~showUnsavedModal
    /\ editingEntry = <<>>
    /\ \E confirmed \in BOOLEAN :
          hasUnsavedChanges => confirmed
    /\ subjects' = SavedDocument.subjects
    /\ timeSlots' = SavedDocument.timeSlots
    /\ loadedTimetable' = << SavedDocument >>
    /\ generatedTimetable' =
          << [entries |-> SavedDocument.generatedTimetable.entries,
              conflicts |-> <<>>,
              success |-> TRUE,
              completionRate |-> Hundred] >>
    /\ hasUnsavedChanges' = FALSE
    /\ validationErrors' = <<>>
    /\ validationWarnings' = <<>>
    /\ lastSave' = NoSave
    /\ UNCHANGED <<engineVars, isGenerating, pending, editingEntry, calls, lastCall,
                   showUnsavedModal, pendingAction>>

\* executeCreateNewTimetable
executeCreateNewTimetable ==
    /\ loadedTimetable' = Null
    /\ generatedTimetable' = Null
    /\ hasUnsavedChanges' = FALSE
    /\ showUnsavedModal' = FALSE
    /\ pendingAction' = Null

\* handleCreateNewTimetable, the New Timetable button shown while a saved
\* timetable is loaded
handleCreateNewTimetable ==
    /\ loadedTimetable # Null
    /\ ~showUnsavedModal
    /\ editingEntry = <<>>
    /\ IF hasUnsavedChanges
       THEN /\ pendingAction' = << "new-timetable" >>
            /\ showUnsavedModal' = TRUE
            /\ UNCHANGED <<loadedTimetable, generatedTimetable, hasUnsavedChanges>>
       ELSE executeCreateNewTimetable
    /\ UNCHANGED <<engineVars, subjects, timeSlots, isGenerating, validationErrors,
                   validationWarnings, pending, editingEntry, calls, lastCall, lastSave>>

\* handleSaveChangesToDatabase: the loadedTimetable it leaves when the PUT
\* request ends with outcome (an alert is all a failure leaves)
handleSaveChangesToDatabase(loaded, generated, outcome) ==
    IF loaded = Null \/ generated = Null THEN loaded
    ELSE IF outcome = "ok"
    THEN << [loaded[1] EXCEPT !.generatedTimetable =
                [entries |-> generated[1].entries]] >>
    ELSE loaded

\* hasUnsavedChanges after handleSaveChangesToDatabase
unsavedAfterSave(loaded, generated, unsaved, outcome) ==
    IF loaded = Null \/ generated = Null THEN unsaved
    ELSE IF outcome = "ok"
    THEN checkForUnsavedChanges(handleSaveChangesToDatabase(loaded, generated, outcome),
                                generated)
    ELSE unsaved

\* the Save Changes button, enabled while there are unsaved changes
SaveChanges ==
    /\ loadedTimetable # Null
    /\ hasUnsavedChanges
    /\ ~showUnsavedModal
    /\ editingEntry = <<>>
    /\ \E outcome \in SaveOutcomes :
          /\ loadedTimetable' =
                handleSaveChangesToDatabase(loadedTimetable, generatedTimetable, outcome)
          /\ hasUnsavedChanges' =
                unsavedAfterSave(loadedTimetable, generatedTimetable,
                                 hasUnsavedChanges, outcome)
          /\ lastSave' = Save("button", outcome)
    /\ UNCHANGED <<engineVars, subjects, timeSlots, generatedTimetable, isGenerating,
                   validationErrors, validationWarnings, pending, editingEntry, calls,
                   lastCall, showUnsavedModal, pendingAction>>

\* handleUnsavedModalSave: the save request, then the pending action
handleUnsavedModalSave ==
    /\ showUnsavedModal
    /\ \E outcome \in SaveOutcomes :
          /\ IF pendingAction = << "new-timetable" >>
             THEN executeCreateNewTimetable
             ELSE /\ loadedTimetable' =
                        handleSaveChangesToDatabase(loadedTimetable, generatedTimetable,
                                                    outcome)
                  /\ hasUnsavedChanges' =
                        unsavedAfterSave(loadedTimetable, generatedTimetable,
                                         hasUnsavedChanges, outcome)
                  /\ UNCHANGED <<generatedTimetable, showUnsavedModal, pendingAction>>
          /\ lastSave' = Save("modal", outcome)
    /\ UNCHANGED <<engineVars, subjects, timeSlots, isGenerating, validationErrors,
                   validationWarnings, pending, editingEntry, calls, lastCall>>

handleUnsavedModalDiscard ==
    /\ showUnsavedModal
    /\ IF pendingAction = << "new-timetable" >>
       THEN executeCreateNewTimetable
       ELSE UNCHANGED <<loadedTimetable, generatedTimetable, hasUnsavedChanges,
                        showUnsavedModal, pendingAction>>
    /\ UNCHANGED <<engineVars, subjects, timeSlots, isGenerating, validationErrors,
                   validationWarnings, pending, editingEntry, calls, lastCall, lastSave>>

handleUnsavedModalCancel ==
    /\ showUnsavedModal
    /\ showUnsavedModal' = FALSE
    /\ pendingAction' = Null
    /\ UNCHANGED <<engineVars, subjects, timeSlots, generatedTimetable, isGenerating,
                   validationErrors, validationWarnings, pending, editingEntry, calls,
                   lastCall, loadedTimetable, hasUnsavedChanges, lastSave>>

SaveNext ==
    \/ handleLoadTimetable
    \/ UpdateEntry
    \/ DeleteEntry
    \/ AddEntry
    \/ SaveChanges
    \/ handleCreateNewTimetable
    \/ handleUnsavedModalSave
    \/ handleUnsavedModalDiscard
    \/ handleUnsavedModalCancel

SaveSpec == SaveInit /\ [][SaveNext]_vars

\* C30: when Save is chosen in the unsaved-changes dialog, the edited
\* timetable is discarded (generatedTimetable and loadedTimetable set to
\* null) only after the save request has succeeded; when the request fails
\* the edits stay in memory and are still marked as unsaved.
C30_DiscardOnlyAfterSaved ==
    [][ (showUnsavedModal /\ lastSave'.via = "modal" /\ lastSave.via # "modal") =>
          /\ (generatedTimetable' = Null /\ loadedTimetable' = Null)
                => lastSave'.outcome = "ok"
          /\ lastSave'.outcome # "ok" =>
                /\ generatedTimetable' = generatedTimetable
                /\ loadedTimetable' = loadedTimetable
                /\ hasUnsavedChanges'
      ]_vars

=============================================================================
